---- MODULE Spec2Model ----
(***************************************************************************)
(* A model of the resampling scripts of "Statistics is Easy!" (Python 2).  *)
(*                                                                         *)
(* Each script is a sequential program; pc is its position.  Python lists  *)
(* are sequences; an index i of the source is position i + 1 here.  Reals  *)
(* are exact: a normal-curve area is an integer number of half ten-        *)
(* thousandths, a number of standard deviations an integer number of       *)
(* thousandths, every other real a fraction <<numerator, denominator>>.    *)
(* Binary floating-point rounding is not modelled.  A random draw is an    *)
(* existentially chosen input of the action that makes it.                 *)
(***************************************************************************)
EXTENDS Integers, Sequences, FiniteSets, TLC

VARIABLES
    pc,                     \* position of the running script or function
    orig_row_totals,        \* FishersExactTestSig.shuffle: argument
    orig_column_totals,     \* FishersExactTestSig.shuffle: argument
    current_row,
    current_column,
    available_row_vals,
    available_column_vals,
    new_counts,
    samples,                \* the groups loaded from the input file
    new_samples,            \* the groups made by the last resampling
    observed,               \* the statistic of the loaded groups
    stat,                   \* the statistic of the last resample
    count,                  \* the tally of a significance test
    i,                      \* trials completed
    out,                    \* the statistics of the bootstrap trials
    printed,                \* what the script has printed
    area_arg,               \* area_to_sd: argument
    sd_ret,                 \* area_to_sd: result
    sd_arg,                 \* sd_to_area: argument
    area_ret,               \* sd_to_area: result
    num_below_observed,
    z_0,
    bias_corr_lower_bound,
    bias_corr_upper_bound,
    lower_bound,            \* the naive percentile bounds
    upper_bound,
    area_table              \* the list area_to_sd_map of the running script

samplerVars == <<orig_row_totals, orig_column_totals, current_row,
                 current_column, available_row_vals, available_column_vals,
                 new_counts>>

scriptVars == <<samples, new_samples, observed, stat, count, i, out, printed>>

tableVars == <<area_arg, sd_ret, sd_arg, area_ret, num_below_observed, z_0,
               bias_corr_lower_bound, bias_corr_upper_bound, lower_bound,
               upper_bound, area_table>>

vars == <<pc, samplerVars, scriptVars, tableVars>>

\* RegressionConf.py line 87: the areas, in ten-thousandths; entry k + 1 is
\* the area for k / 100 standard deviations
area_to_sd_map == <<
    0, 40, 80, 120, 160, 199, 239, 279, 319, 359, 398, 438,
    478, 517, 557, 596, 636, 675, 714, 753, 793, 832, 871, 910,
    948, 987, 1026, 1064, 1103, 1141, 1179, 1217, 1255, 1293, 1331, 1368,
    1406, 1443, 1480, 1517, 1554, 1591, 1628, 1664, 1700, 1736, 1772, 1808,
    1844, 1879, 1915, 1950, 1985, 2019, 2054, 2088, 2123, 2157, 2190, 2224,
    2257, 2291, 2324, 2357, 2389, 2422, 2454, 2486, 2517, 2549, 2580, 2611,
    2642, 2673, 2704, 2734, 2764, 2794, 2823, 2852, 2881, 2910, 2939, 2967,
    2995, 3023, 3051, 3078, 3106, 3133, 3159, 3186, 3212, 3238, 3264, 3289,
    3315, 3340, 3365, 3389, 3413, 3438, 3461, 3485, 3508, 3531, 3554, 3577,
    3599, 3621, 3643, 3665, 3686, 3708, 3729, 3749, 3770, 3790, 3810, 3830,
    3849, 3869, 3888, 3907, 3925, 3944, 3962, 3980, 3997, 4015, 4032, 4049,
    4066, 4082, 4099, 4115, 4131, 4147, 4162, 4177, 4192, 4207, 4222, 4236,
    4251, 4265, 4279, 4292, 4306, 4319, 4332, 4345, 4357, 4370, 4382, 4394,
    4406, 4418, 4429, 4441, 4452, 4463, 4474, 4484, 4495, 4505, 4515, 4525,
    4535, 4545, 4554, 4564, 4573, 4582, 4591, 4599, 4608, 4616, 4625, 4633,
    4641, 4649, 4656, 4664, 4671, 4678, 4686, 4693, 4699, 4706, 4713, 4719,
    4726, 4732, 4738, 4744, 4750, 4756, 4761, 4767, 4772, 4778, 4783, 4788,
    4793, 4798, 4803, 4808, 4812, 4817, 4821, 4826, 4830, 4834, 4838, 4842,
    4846, 4850, 4854, 4857, 4861, 4864, 4868, 4871, 4875, 4878, 4881, 4884,
    4887, 4890, 4893, 4896, 4898, 4901, 4904, 4906, 4909, 4911, 4913, 4916,
    4918, 4920, 4922, 4925, 4927, 4929, 4931, 4932, 4934, 4936, 4938, 4940,
    4941, 4943, 4945, 4946, 4948, 4949, 4951, 4952, 4953, 4955, 4956, 4957,
    4959, 4960, 4961, 4962, 4963, 4964, 4965, 4966, 4967, 4968, 4969, 4970,
    4971, 4972, 4973, 4974, 4974, 4975, 4976, 4977, 4977, 4978, 4979, 4979,
    4980, 4981, 4981, 4982, 4982, 4983, 4984, 4984, 4985, 4985, 4986, 4986,
    4987, 4987, 4987, 4988, 4988, 4989, 4989, 4989, 4990, 4990 >>

\* the variables of the programs that are not running
SamplerIdle ==
    /\ orig_row_totals = <<>>
    /\ orig_column_totals = <<>>
    /\ current_row = 0
    /\ current_column = 0
    /\ available_row_vals = <<>>
    /\ available_column_vals = <<>>
    /\ new_counts = <<>>

ScriptIdle ==
    /\ samples = <<>>
    /\ new_samples = <<>>
    /\ observed = <<0, 1>>
    /\ stat = <<0, 1>>
    /\ count = 0
    /\ i = 0
    /\ out = <<>>
    /\ printed = <<>>

TableIdle ==
    /\ area_arg = 0
    /\ sd_ret = 0
    /\ sd_arg = 0
    /\ area_ret = <<"none", 0>>
    /\ num_below_observed = 0
    /\ z_0 = 0
    /\ bias_corr_lower_bound = 0
    /\ bias_corr_upper_bound = 0
    /\ lower_bound = 0
    /\ upper_bound = 0
    /\ area_table = area_to_sd_map

----------------------------------------------------------------------------
(* Bounds of the model *)

MaxDim == 2        \* most rows / columns of a contingency table
MaxTotal == 2      \* largest row or column total

----------------------------------------------------------------------------
(* General helpers *)

Min(p, q) == IF p <= q THEN p ELSE q

RECURSIVE SumSeq(_)
SumSeq(s) == IF s = <<>> THEN 0 ELSE Head(s) + SumSeq(Tail(s))

SeqsUpTo(S, n) == UNION {[1..k -> S] : k \in 0..n}

----------------------------------------------------------------------------
(* FishersExactTestSig.py: shuffle(orig_row_totals, orig_column_totals)    *)

\* the totals the script can pass: sums of counts read with int(), where a
\* count that was never read keeps its initial value -1
Totals == (-1)..MaxTotal

\* a draw that stops one short of the smaller available count
max_val_Exclusive(arv, acv, r, c) == Min(arv[r + 1], acv[c + 1]) - 1

\* line 129: max_val
max_val(arv, acv, r, c) == Min(arv[r + 1], acv[c + 1])

\* a slip at line 134: the forced value is taken from the column's count
LastColumnVal_FromColumn(arv, acv, r, c) == acv[c + 1]

\* line 134: the value forced in the last column of a row that is not the last
LastColumnVal(arv, acv, r, c) == arv[r + 1]

\* line 136: the value forced in the last row
LastRowVal(arv, acv, r, c) == acv[c + 1]

\* lines 138-140: subtract the stored value from both available counts
StoreCell(v) ==
    /\ new_counts' = Append(new_counts, v)
    /\ available_row_vals' =
         [available_row_vals EXCEPT ![current_row + 1] = @ - v]
    /\ available_column_vals' =
         [available_column_vals EXCEPT ![current_column + 1] = @ - v]
    /\ current_column' = current_column + 1
    /\ UNCHANGED <<pc, current_row, orig_row_totals, orig_column_totals,
                   scriptVars, tableVars>>

SamplerInit ==
    /\ pc = "call"
    /\ orig_row_totals \in SeqsUpTo(Totals, MaxDim)
    /\ orig_column_totals \in SeqsUpTo(Totals, MaxDim)
    /\ current_row = 0
    /\ current_column = 0
    /\ available_row_vals = <<>>
    /\ available_column_vals = <<>>
    /\ new_counts = <<>>
    /\ ScriptIdle
    /\ TableIdle

\* lines 112-118
ShuffleEnter ==
    /\ pc = "call"
    /\ current_row' = 0
    /\ available_row_vals' = orig_row_totals
    /\ available_column_vals' = orig_column_totals
    /\ new_counts' = <<>>
    /\ pc' = "row"
    /\ UNCHANGED <<orig_row_totals, orig_column_totals, current_column,
                   scriptVars, tableVars>>

\* lines 120-121: one more row
ShuffleRow ==
    /\ pc = "row"
    /\ current_row < Len(orig_row_totals)
    /\ current_column' = 0
    /\ pc' = "column"
    /\ UNCHANGED <<orig_row_totals, orig_column_totals, current_row,
                   available_row_vals, available_column_vals, new_counts,
                   scriptVars, tableVars>>

\* lines 120, 142: no row is left, return new_counts
ShuffleReturn ==
    /\ pc = "row"
    /\ ~(current_row < Len(orig_row_totals))
    /\ pc' = "returned"
    /\ UNCHANGED <<samplerVars, scriptVars, tableVars>>

\* lines 122, 141: the row is complete
ShuffleRowDone ==
    /\ pc = "column"
    /\ ~(current_column < Len(orig_column_totals))
    /\ current_row' = current_row + 1
    /\ pc' = "row"
    /\ UNCHANGED <<orig_row_totals, orig_column_totals, current_column,
                   available_row_vals, available_column_vals, new_counts,
                   scriptVars, tableVars>>

\* lines 124-132, 138-140: a cell that is in neither the last row nor the
\* last column gets random.randint(0, max_val)
ShuffleFreeCell ==
    /\ pc = "column"
    /\ current_column < Len(orig_column_totals)
    /\ current_row < Len(orig_row_totals) - 1
    /\ current_column < Len(orig_column_totals) - 1
    /\ \E new_val \in 0..max_val(available_row_vals, available_column_vals,
                                 current_row, current_column) :
          StoreCell(new_val)

\* line 130: random.randint(0, max_val) raises ValueError on an empty range
ShuffleFreeCellError ==
    /\ pc = "column"
    /\ current_column < Len(orig_column_totals)
    /\ current_row < Len(orig_row_totals) - 1
    /\ current_column < Len(orig_column_totals) - 1
    /\ max_val(available_row_vals, available_column_vals,
               current_row, current_column) < 0
    /\ pc' = "error"
    /\ UNCHANGED <<samplerVars, scriptVars, tableVars>>

\* lines 133-134, 138-140
ShuffleLastColumnCell ==
    /\ pc = "column"
    /\ current_column < Len(orig_column_totals)
    /\ current_row < Len(orig_row_totals) - 1
    /\ ~(current_column < Len(orig_column_totals) - 1)
    /\ StoreCell(LastColumnVal(available_row_vals, available_column_vals,
                               current_row, current_column))

\* lines 135-136, 138-140
ShuffleLastRowCell ==
    /\ pc = "column"
    /\ current_column < Len(orig_column_totals)
    /\ ~(current_row < Len(orig_row_totals) - 1)
    /\ StoreCell(LastRowVal(available_row_vals, available_column_vals,
                            current_row, current_column))

SamplerNext ==
    \/ ShuffleEnter
    \/ ShuffleRow
    \/ ShuffleReturn
    \/ ShuffleRowDone
    \/ ShuffleFreeCell
    \/ ShuffleFreeCellError
    \/ ShuffleLastColumnCell
    \/ ShuffleLastRowCell

SpecSampler == SamplerInit /\ [][SamplerNext]_vars

----------------------------------------------------------------------------
(* Properties of the marginal-preserving sampler *)

NonNegative(s) == \A k \in 1..Len(s) : s[k] >= 0

\* the table is row-major: cell (r, c) of an m x n table is new_counts[r*n+c+1]
Cell(counts, n, r, c) == counts[r * n + c + 1]

RECURSIVE RowSum(_, _, _, _)
RowSum(counts, n, r, k) ==
    IF k = 0 THEN 0 ELSE Cell(counts, n, r, k - 1) + RowSum(counts, n, r, k - 1)

RECURSIVE ColumnSum(_, _, _, _)
ColumnSum(counts, n, c, k) ==
    IF k = 0 THEN 0
    ELSE Cell(counts, n, k - 1, c) + ColumnSum(counts, n, c, k - 1)

\* the arguments the sampler is specified for
ConsistentTotals ==
    /\ NonNegative(orig_row_totals)
    /\ NonNegative(orig_column_totals)
    /\ SumSeq(orig_row_totals) = SumSeq(orig_column_totals)

\* C1: for non-negative row and column totals with equal sums, whatever the
\* random draws, the returned table has one cell per (row, column), every row
\* sums to its row total and every column sums to its column total.
C1_MarginalsPreserved ==
    (pc = "returned" /\ ConsistentTotals) =>
        LET m == Len(orig_row_totals)
            n == Len(orig_column_totals)
        IN  /\ Len(new_counts) = m * n
            /\ \A r \in 0..(m - 1) :
                  RowSum(new_counts, n, r, n) = orig_row_totals[r + 1]
            /\ \A c \in 0..(n - 1) :
                  ColumnSum(new_counts, n, c, m) = orig_column_totals[c + 1]
            /\ SumSeq(new_counts) = SumSeq(orig_row_totals)

\* C1 witness: a 2 x 2 table was returned for consistent totals after a
\* positive random draw in its free cell
C1_Witness ==
    /\ pc = "returned"
    /\ ConsistentTotals
    /\ Len(orig_row_totals) = 2
    /\ Len(orig_column_totals) = 2
    /\ new_counts[1] > 0
    /\ new_counts[4] > 0

\* C2: for non-negative row and column totals with equal sums, whatever the
\* random draws, every cell of the returned table is a non-negative integer.
C2_CellsNonNegative ==
    (pc = "returned" /\ ConsistentTotals) => NonNegative(new_counts)

\* C3: for non-negative totals, a step of the sampler that leaves an available
\* row count or an available column count negative is the failure of the
\* sampler: it does not go on filling and returning the table.
C3_FailFast ==
    [][(/\ NonNegative(orig_row_totals)
        /\ NonNegative(orig_column_totals)
        /\ \/ ~NonNegative(available_row_vals')
           \/ ~NonNegative(available_column_vals'))
       => pc' = "error"]_vars

----------------------------------------------------------------------------
(* Groups of values, as the scripts load them                               *)

MaxPool == 3       \* most values in all the groups of an input together
MaxGroups == 3     \* most groups of an input

\* the values of the samples
Values == {0, 1, 3}

\* the lists of exactly k groups of values of V that hold at most n values
\* together
RECURSIVE GroupListsOf(_, _, _)
GroupListsOf(V, k, n) ==
    IF k = 0 THEN {<<>>}
    ELSE UNION {{<<g>> \o rest : rest \in GroupListsOf(V, k - 1, n - Len(g))} :
                    g \in SeqsUpTo(V, n)}

GroupLists == UNION {GroupListsOf(Values, k, MaxPool) : k \in 0..MaxGroups}

\* exact fractions <<numerator, denominator>> with a positive denominator
FracSub(x, y) == <<x[1] * y[2] - y[1] * x[2], x[2] * y[2]>>
FracLT(x, y) == x[1] * y[2] < y[1] * x[2]
FracLE(x, y) == x[1] * y[2] <= y[1] * x[2]
FracNegative(x) == x[1] < 0

----------------------------------------------------------------------------
(* Diff2MeanSig.py, OneWayAnovaSig.py, RegressionSig.py: shuffle(grps)      *)

\* lines 67-71: pool.extend(grps[i]) for the first num groups
RECURSIVE Pool(_, _)
Pool(grps, num) == IF num = 0 THEN <<>> ELSE Pool(grps, num - 1) \o grps[num]

\* line 73: random.shuffle(pool), perm being the permutation drawn
Shuffled(pool, perm) == [k \in 1..Len(pool) |-> pool[perm[k]]]

\* line 80: pool[start_index:end_index]
Slice(pool, start_index, end_index) ==
    SubSeq(pool, start_index + 1, Min(end_index, Len(pool)))

\* a slip at line 81: start_index is not advanced
NextStart_Stuck(start_index, end_index) == start_index

\* line 81: start_index = end_index
NextStart(start_index, end_index) == end_index

\* lines 75-82: the groups from group k on, start_index being the value of
\* the variable when the loop reaches group k
RECURSIVE Regroup(_, _, _, _)
Regroup(grps, pool, k, start_index) ==
    IF k = Len(grps) THEN <<>>
    ELSE LET end_index == start_index + Len(grps[k + 1])
         IN  <<Slice(pool, start_index, end_index)>>
                 \o Regroup(grps, pool, k + 1, NextStart(start_index, end_index))

\* lines 65-82
shuffle(grps, perm) ==
    Regroup(grps, Shuffled(Pool(grps, Len(grps)), perm), 0, 0)

\* the number of values of all groups
PoolSize(grps) == Len(Pool(grps, Len(grps)))

GroupShuffleInit ==
    /\ pc = "call"
    /\ samples \in GroupLists
    /\ new_samples = <<>>
    /\ observed = <<0, 1>>
    /\ stat = <<0, 1>>
    /\ count = 0
    /\ i = 0
    /\ out = <<>>
    /\ printed = <<>>
    /\ SamplerIdle
    /\ TableIdle

\* new_samples = shuffle(samples)
GroupShuffleCall ==
    /\ pc = "call"
    /\ \E perm \in Permutations(1..PoolSize(samples)) :
          new_samples' = shuffle(samples, perm)
    /\ pc' = "returned"
    /\ UNCHANGED <<samples, observed, stat, count, i, out, printed,
                   samplerVars, tableVars>>

GroupShuffleNext == GroupShuffleCall

SpecGroupShuffle == GroupShuffleInit /\ [][GroupShuffleNext]_vars

----------------------------------------------------------------------------
(* Properties of the group shuffler *)

RECURSIVE Flatten(_)
Flatten(grps) == IF grps = <<>> THEN <<>> ELSE Head(grps) \o Flatten(Tail(grps))

Occurrences(v, s) == Cardinality({k \in 1..Len(s) : s[k] = v})

SameMultiset(s, t) ==
    /\ Len(s) = Len(t)
    /\ \A k \in 1..Len(s) : Occurrences(s[k], s) = Occurrences(s[k], t)

\* C4: whatever the groups and the permutation drawn, shuffle returns as many
\* groups as it was given, group k of the result is as long as group k of the
\* argument, and the values of all result groups together are, as a multiset,
\* the values of all argument groups.
C4_GroupShufflePreserves ==
    pc = "returned" =>
        /\ Len(new_samples) = Len(samples)
        /\ \A k \in 1..Len(samples) : Len(new_samples[k]) = Len(samples[k])
        /\ SameMultiset(Flatten(new_samples), Flatten(samples))

\* C4 witness: three groups, two of them non-empty, came back with their
\* values moved between groups
C4_Witness ==
    /\ pc = "returned"
    /\ Len(samples) = 3
    /\ Len(samples[1]) = 1
    /\ Len(samples[3]) = 2
    /\ new_samples[1] # samples[1]
    /\ new_samples[3] # samples[3]

----------------------------------------------------------------------------
(* Diff2MeanSig.py: the significance test of a difference of two means     *)

\* The scripts run 10,000 trials (num_shuffles, num_runs, num_resamples);
\* the model runs this many.
NumTrials == 3

\* line 86; the fraction is not reduced
meandiff(grpA, grpB) ==
    FracSub(<<SumSeq(grpB), Len(grpB)>>, <<SumSeq(grpA), Len(grpA)>>)

\* line 86: float division by zero raises ZeroDivisionError
meandiff_raises(grpA, grpB) == Len(grpB) = 0 \/ Len(grpA) = 0

\* a slip at lines 120-123: a difference equal to the observed one is not
\* counted
Diff2MeanTallied_Strict(observed_mean_diff, mean_diff) ==
    \/ FracNegative(observed_mean_diff) /\ FracLT(mean_diff, observed_mean_diff)
    \/ /\ ~FracNegative(observed_mean_diff)
       /\ FracLT(observed_mean_diff, mean_diff)

\* lines 120-123: is the trial counted
Diff2MeanTallied(observed_mean_diff, mean_diff) ==
    \/ FracNegative(observed_mean_diff) /\ FracLE(mean_diff, observed_mean_diff)
    \/ /\ ~FracNegative(observed_mean_diff)
       /\ FracLE(observed_mean_diff, mean_diff)

\* a slip at line 115: one trial too many
LoopContinues_OneMore(k, n) == k <= n

\* line 115: for i in range(num_shuffles), n being the number of trials
LoopContinues(k, n) == k < n

Diff2MeanSigInit ==
    /\ pc = "loaded"
    /\ samples \in GroupLists
    /\ new_samples = <<>>
    /\ observed = <<0, 1>>
    /\ stat = <<0, 1>>
    /\ count = 0
    /\ i = 0
    /\ out = <<>>
    /\ printed = <<>>
    /\ SamplerIdle
    /\ TableIdle

\* lines 110-113, with a = 0 and b = 1 (lines 96-97)
Diff2MeanSigObserve ==
    /\ pc = "loaded"
    /\ Len(samples) >= 2
    /\ ~meandiff_raises(samples[1], samples[2])
    /\ observed' = meandiff(samples[1], samples[2])
    /\ count' = 0
    /\ i' = 0
    /\ pc' = "loop"
    /\ UNCHANGED <<samples, new_samples, stat, out, printed,
                   samplerVars, tableVars>>

\* line 110: samples[a] or samples[b] does not exist (IndexError), or a group
\* is empty (ZeroDivisionError)
Diff2MeanSigObserveRaises ==
    /\ pc = "loaded"
    /\ IF Len(samples) < 2 THEN TRUE
       ELSE meandiff_raises(samples[1], samples[2])
    /\ pc' = "error"
    /\ UNCHANGED <<scriptVars, samplerVars, tableVars>>

\* lines 115-123: one trial.  The shuffled groups have the sizes of the
\* loaded ones, so meandiff divides by what line 110 divided by.
Diff2MeanSigTrial ==
    /\ pc = "loop"
    /\ LoopContinues(i, NumTrials)
    /\ \E perm \in Permutations(1..PoolSize(samples)) :
          LET shuffled == shuffle(samples, perm)
              mean_diff == meandiff(shuffled[1], shuffled[2])
          IN  /\ new_samples' = shuffled
              /\ stat' = mean_diff
              /\ count' = IF Diff2MeanTallied(observed, mean_diff)
                          THEN count + 1 ELSE count
    /\ i' = i + 1
    /\ UNCHANGED <<pc, samples, observed, out, printed, samplerVars, tableVars>>

\* lines 131-143: the report
Diff2MeanSigOutput ==
    /\ pc = "loop"
    /\ ~LoopContinues(i, NumTrials)
    /\ printed' = <<[observed |-> observed, count |-> count,
                     probability |-> <<count, NumTrials>>]>>
    /\ pc' = "done"
    /\ UNCHANGED <<samples, new_samples, observed, stat, count, i, out,
                   samplerVars, tableVars>>

Diff2MeanSigNext ==
    \/ Diff2MeanSigObserve
    \/ Diff2MeanSigObserveRaises
    \/ Diff2MeanSigTrial
    \/ Diff2MeanSigOutput

SpecDiff2MeanSig == Diff2MeanSigInit /\ [][Diff2MeanSigNext]_vars

----------------------------------------------------------------------------
(* Properties of the permutation test run *)

\* C10: a permutation test run that does not fail performs exactly
\* NumTrials trials; the tally starts at 0, a trial leaves it or adds 1 to
\* it, so 0 <= tally <= trials completed at every point; the observed
\* statistic is the same throughout; the reported probability is
\* tally / NumTrials, a value in [0, 1].
C10_PermutationRun ==
    /\ [](pc \in {"loop", "done"} =>
            /\ 0 <= count
            /\ count <= i
            /\ i <= NumTrials)
    /\ [](pc = "done" =>
            /\ i = NumTrials
            /\ printed[1].count = count
            /\ printed[1].observed = observed
            /\ printed[1].probability = <<count, NumTrials>>
            /\ 0 <= printed[1].probability[1]
            /\ printed[1].probability[1] <= printed[1].probability[2])
    /\ [][pc = "loaded" /\ pc' = "loop" => count' = 0 /\ i' = 0]_vars
    /\ [][pc = "loop" =>
            /\ observed' = observed
            /\ \/ i' = i + 1 /\ count' \in {count, count + 1} /\ pc' = "loop"
               \/ i' = i /\ count' = count /\ pc' = "done"]_vars

\* C10 witness: a finished run in which some trials were tallied and some
\* were not
C10_Witness ==
    /\ pc = "done"
    /\ i = NumTrials
    /\ 0 < count
    /\ count < NumTrials

\* the example of the header comment of Diff2MeanSig.py (lines 16-19)
placebo_vals == <<54, 51, 58, 44, 55, 52, 42, 47, 58, 46>>
drug_vals == <<54, 73, 53, 70, 73, 68, 52, 65, 65>>

\* C12: a trial of the mean-difference permutation test adds 1 to the tally
\* exactly when the observed difference is >= 0 and the shuffled difference
\* is >= the observed one, or the observed difference is < 0 and the
\* shuffled difference is <= the observed one; for the placebo / drug example
\* the observed difference is 1167/90, which is not negative, so a shuffled
\* difference is tallied exactly when it is >= 1167/90.
C12_MeanDiffTally ==
    /\ [][(pc = "loop" /\ i' = i + 1) =>
            (count' = count + 1 <=>
                \/ /\ observed[1] * observed[2] >= 0
                   /\ stat'[1] * observed[2] >= observed[1] * stat'[2]
                \/ /\ observed[1] * observed[2] < 0
                   /\ stat'[1] * observed[2] <= observed[1] * stat'[2])]_vars
    /\ [](LET example == meandiff(placebo_vals, drug_vals)
          IN  /\ example[2] > 0
              /\ example[1] * 90 = 1167 * example[2]
              /\ \A d \in {<<1166, 90>>, <<1167, 90>>, <<1168, 90>>,
                            <<-1167, 90>>, <<0, 1>>} :
                    Diff2MeanTallied(example, d) <=> d[1] >= 1167)

\* C12 witness: with a negative observed difference a trial whose difference
\* equals it was tallied
C12_Witness ==
    /\ pc = "loop"
    /\ i = 1
    /\ count = 1
    /\ observed[1] < 0
    /\ stat[1] * observed[2] = observed[1] * stat[2]

----------------------------------------------------------------------------
(* CorrelationSig.py: the significance test of Pearson's r                 *)

MaxPairs == 3      \* most values of x, and of y, in a paired input

\* the inputs of the paired scripts: no group, one group, or x and y
PairedInputs ==
    {<<>>} \cup {<<x>> : x \in SeqsUpTo(Values, 1)}
           \cup {<<x, y>> : x \in SeqsUpTo(Values, MaxPairs),
                            y \in SeqsUpTo(Values, MaxPairs)}

\* lines 71-77: sumofsq(vals, mean) for mean = <<s, n>>, as the fraction
\* <<sum of (n * v - s)^2, n^2>>
RECURSIVE SumSqScaled(_, _, _, _)
SumSqScaled(vals, s, n, k) ==
    IF k = 0 THEN 0
    ELSE SumSqScaled(vals, s, n, k - 1)
           + (n * vals[k] - s) * (n * vals[k] - s)

sumofsq(vals, mean) ==
    <<SumSqScaled(vals, mean[1], mean[2], Len(vals)), mean[2] * mean[2]>>

\* lines 79-85: sumofproducts(x_vals, y_vals, mean_x, mean_y), the loop
\* running over len(x_vals), as a fraction with denominator nx * ny
RECURSIVE SumProdScaled(_, _, _, _, _)
SumProdScaled(x_vals, y_vals, mean_x, mean_y, k) ==
    IF k = 0 THEN 0
    ELSE SumProdScaled(x_vals, y_vals, mean_x, mean_y, k - 1)
           + (mean_x[2] * x_vals[k] - mean_x[1])
               * (mean_y[2] * y_vals[k] - mean_y[1])

sumofproducts(x_vals, y_vals, mean_x, mean_y) ==
    <<SumProdScaled(x_vals, y_vals, mean_x, mean_y, Len(x_vals)),
      mean_x[2] * mean_y[2]>>

\* lines 87-102.  The sums and counts are those of the arguments x and y; the
\* sum of products and the sums of squares are those of the script's
\* variables grp_x and grp_y (lines 96, 99, 100), given here as g_x and g_y.
\* The result <<p, q>> is the real p / sqrt(q): with nx = len(x) and
\* ny = len(y), sum_of_prod = p / (nx * ny) and
\* sum_of_sq_x * sum_of_sq_y = q / (nx * ny)^2.
corrcoef(x, y, g_x, g_y) ==
    LET mean_x == <<SumSeq(x), Len(x)>>
        mean_y == <<SumSeq(y), Len(y)>>
        sum_of_prod == sumofproducts(g_x, g_y, mean_x, mean_y)
        sum_of_sq_x == sumofsq(g_x, mean_x)
        sum_of_sq_y == sumofsq(g_y, mean_y)
    IN  <<sum_of_prod[1], sum_of_sq_x[1] * sum_of_sq_y[1]>>

\* lines 92-93: ZeroDivisionError; line 83: IndexError; line 102:
\* ZeroDivisionError
corrcoef_raises(x, y, g_x, g_y) ==
    IF Len(x) = 0 \/ Len(y) = 0 THEN TRUE
    ELSE IF Len(g_y) < Len(g_x) THEN TRUE
    ELSE corrcoef(x, y, g_x, g_y)[2] = 0

\* reals p / sqrt(q) with q > 0: the order and the sign
RootSign(r) == IF r[1] > 0 THEN 1 ELSE IF r[1] < 0 THEN -1 ELSE 0
RootLE(r, s) ==
    RootSign(r) * r[1] * r[1] * s[2] <= RootSign(s) * s[1] * s[1] * r[2]

\* line 136: is the trial counted
CorrelationTallied(observed_r, r) ==
    \/ RootSign(observed_r) > 0 /\ RootLE(observed_r, r)
    \/ RootSign(observed_r) < 0 /\ RootLE(r, observed_r)

CorrelationSigInit ==
    /\ pc = "loaded"
    /\ samples \in PairedInputs
    /\ new_samples = <<>>
    /\ observed = <<0, 1>>
    /\ stat = <<0, 1>>
    /\ count = 0
    /\ i = 0
    /\ out = <<>>
    /\ printed = <<>>
    /\ SamplerIdle
    /\ TableIdle

\* lines 124-130: grp_x and grp_y are the lists samples[0] and samples[1]
\* themselves, not copies
CorrelationSigObserve ==
    /\ pc = "loaded"
    /\ Len(samples) >= 2
    /\ ~corrcoef_raises(samples[1], samples[2], samples[1], samples[2])
    /\ observed' = corrcoef(samples[1], samples[2], samples[1], samples[2])
    /\ count' = 0
    /\ i' = 0
    /\ pc' = "loop"
    /\ UNCHANGED <<samples, new_samples, stat, out, printed,
                   samplerVars, tableVars>>

\* lines 124-127: IndexError or ZeroDivisionError
CorrelationSigObserveRaises ==
    /\ pc = "loaded"
    /\ IF Len(samples) < 2 THEN TRUE
       ELSE corrcoef_raises(samples[1], samples[2], samples[1], samples[2])
    /\ pc' = "error"
    /\ UNCHANGED <<scriptVars, samplerVars, tableVars>>

\* lines 132-137: one trial; random.shuffle(grp_y) permutes the list grp_y,
\* which is samples[1], in place.  A permutation of grp_y changes neither a
\* length nor a sum of squares, so corrcoef divides as line 127 did.
CorrelationSigTrial ==
    /\ pc = "loop"
    /\ LoopContinues(i, NumTrials)
    /\ \E perm \in Permutations(1..Len(samples[2])) :
          LET grp_x == samples[1]
              grp_y == Shuffled(samples[2], perm)
              r == corrcoef(grp_x, grp_y, grp_x, grp_y)
          IN  /\ samples' = [samples EXCEPT ![2] = grp_y]
              /\ stat' = r
              /\ count' = IF CorrelationTallied(observed, r)
                          THEN count + 1 ELSE count
    /\ i' = i + 1
    /\ UNCHANGED <<pc, new_samples, observed, out, printed,
                   samplerVars, tableVars>>

\* lines 145-157: the report
CorrelationSigOutput ==
    /\ pc = "loop"
    /\ ~LoopContinues(i, NumTrials)
    /\ printed' = <<[observed |-> observed, count |-> count,
                     probability |-> <<count, NumTrials>>]>>
    /\ pc' = "done"
    /\ UNCHANGED <<samples, new_samples, observed, stat, count, i, out,
                   samplerVars, tableVars>>

CorrelationSigNext ==
    \/ CorrelationSigObserve
    \/ CorrelationSigObserveRaises
    \/ CorrelationSigTrial
    \/ CorrelationSigOutput

SpecCorrelationSig == CorrelationSigInit /\ [][CorrelationSigNext]_vars

----------------------------------------------------------------------------
(* Loaded samples under resampling *)

\* C7: no trial modifies a loaded sample: across every step of a run the
\* loaded samples (grp_y of the correlation test included) stay the ordered
\* sequences that were loaded.
C7_SamplesImmutable == [][samples' = samples]_vars

\* C14: a trial of the correlation significance test adds 1 to the tally
\* exactly when the shuffled r is >= the observed r, unless the observed r is
\* negative, and then exactly when the shuffled r is <= the observed r; this
\* for every observed r, 0 included.
C14_CorrelationTally ==
    [][(pc = "loop" /\ i' = i + 1) =>
          (count' = count + 1 <=>
              IF RootSign(observed) < 0 THEN RootLE(stat', observed)
              ELSE RootLE(observed, stat'))]_vars

----------------------------------------------------------------------------
(* RegressionConf.py, OneWayAnovaConf.py, TwoWayAnovaConf.py: the table of   *)
(* normal-curve areas, sd_to_area and area_to_sd                            *)

\* a slip at lines 90-92: the sign of the argument is lost
SignOf_Lost(v) == 1

\* the sign of a number, as the functions compute it (0 counts as positive)
SignOf(v) == IF v < 0 THEN -1 ELSE 1

Abs(v) == IF v < 0 THEN -v ELSE v

\* lines 89-99: sd_to_area(sd).  sd is in thousandths; the result is
\* <<"ok", area>> with the area in halves of a ten-thousandth, or
\* <<"IndexError", 0>> when line 99 reads area_to_sd_map[index + 1] past the
\* end of the list.
sd_to_area(sd) ==
    LET sign == SignOf(sd)
        index == Abs(sd) \div 10
    IN  IF Len(area_to_sd_map) <= index
        THEN <<"ok", 2 * sign * area_to_sd_map[Len(area_to_sd_map)]>>
        ELSE IF index * 10 = Abs(sd)
        THEN <<"ok", 2 * sign * area_to_sd_map[index + 1]>>
        ELSE IF index + 1 >= Len(area_to_sd_map)
        THEN <<"IndexError", 0>>
        ELSE <<"ok", sign * (area_to_sd_map[index + 1]
                               + area_to_sd_map[index + 2])>>

\* lines 107, 109: does the loop of area_to_sd return at index k, for the
\* absolute area <<n, d>> (a fraction of ten-thousandths)
ExactAt(n, d, k) == n = area_to_sd_map[k + 1] * d
BetweenAt(n, d, k) ==
    /\ 0 < k
    /\ area_to_sd_map[k] * d < n
    /\ n < area_to_sd_map[k + 1] * d

\* lines 106-113: the loop returns at the first index at which one of its two
\* tests holds, and line 113 returns when there is none; the result is in
\* thousandths.  sign * a / 100 and sign * (len(area_to_sd_map) - 1) / 100
\* divide an int by an int, which in Python 2 is the floor of the quotient;
\* (a - .5) is a float.
AreaScan(n, d, sign) ==
    LET hits == {k \in 0..(Len(area_to_sd_map) - 1) :
                    ExactAt(n, d, k) \/ BetweenAt(n, d, k)}
    IN  IF hits = {}
        THEN ((sign * (Len(area_to_sd_map) - 1)) \div 100) * 1000
        ELSE LET a_first == CHOOSE k \in hits : \A j \in hits : k <= j
             IN  IF ExactAt(n, d, a_first)
                 THEN ((sign * a_first) \div 100) * 1000
                 ELSE sign * (10 * a_first - 5)

\* lines 101-113: area_to_sd(area), area = <<n, d>> in ten-thousandths, d > 0
area_to_sd(area_fraction) ==
    AreaScan(Abs(area_fraction[1]), area_fraction[2],
             SignOf(area_fraction[1]))

----------------------------------------------------------------------------
(* sd_to_area as a function of its argument *)

SdMargin == 100    \* how far past the table (in thousandths) arguments go

SdToAreaInit ==
    /\ pc = "call"
    /\ area_arg = 0
    /\ sd_ret = 0
    /\ sd_arg \in (-(10 * Len(area_to_sd_map) + SdMargin))
                    ..(10 * Len(area_to_sd_map) + SdMargin)
    /\ area_ret = <<"none", 0>>
    /\ num_below_observed = 0
    /\ z_0 = 0
    /\ bias_corr_lower_bound = 0
    /\ bias_corr_upper_bound = 0
    /\ area_table = area_to_sd_map
    /\ lower_bound = 0
    /\ upper_bound = 0
    /\ SamplerIdle
    /\ ScriptIdle

\* lines 89-99: the call returns
SdToAreaReturn ==
    /\ pc = "call"
    /\ sd_to_area(sd_arg)[1] = "ok"
    /\ area_ret' = sd_to_area(sd_arg)
    /\ pc' = "returned"
    /\ UNCHANGED <<area_table,
                   area_arg, sd_ret, sd_arg, num_below_observed, z_0,
                   bias_corr_lower_bound,
                   bias_corr_upper_bound, lower_bound, upper_bound,
                   samplerVars, scriptVars>>

\* line 99: the call raises IndexError
SdToAreaRaises ==
    /\ pc = "call"
    /\ sd_to_area(sd_arg)[1] = "IndexError"
    /\ area_ret' = sd_to_area(sd_arg)
    /\ pc' = "error"
    /\ UNCHANGED <<area_table,
                   area_arg, sd_ret, sd_arg, num_below_observed, z_0,
                   bias_corr_lower_bound,
                   bias_corr_upper_bound, lower_bound, upper_bound,
                   samplerVars, scriptVars>>

SdToAreaNext ==
    \/ SdToAreaReturn
    \/ SdToAreaRaises

SpecSdToArea == SdToAreaInit /\ [][SdToAreaNext]_vars

\* C6: sd_to_area returns a value for every sd and never reads outside the
\* table; whenever the index int(|sd| * 100) is at or beyond the last position
\* of the table the result is sign(sd) times the last entry.
C6_SdToAreaTotal ==
    /\ pc # "error"
    /\ (pc = "returned" /\ Abs(sd_arg) \div 10 >= Len(area_to_sd_map) - 1) =>
          area_ret = <<"ok", 2 * SignOf(sd_arg)
                               * area_to_sd_map[Len(area_to_sd_map)]>>

----------------------------------------------------------------------------
(* RegressionConf.py lines 216-230 (OneWayAnovaConf.py 272-286,             *)
(* TwoWayAnovaConf.py 345-359): the bias-corrected bounds                   *)

\* line 76: conf_interval = 0.9, in ten-thousandths
conf_interval == 9000

\* line 189
num_resamples == 10000

\* lines 216-218: p - .5 for p = below / float(n), in ten-thousandths
dist_from_center(below, n) == <<10000 * below - 5000 * n, n>>

\* line 222: area_to_sd(conf_interval / 2)
tail_sds == area_to_sd(<<conf_interval, 2>>)

\* a slip at line 229: 1 + area in place of 0.5 + area
ScaledIndex_WholeArea(n, half_area) == <<n * (20000 + half_area), 20000>>

\* lines 229-230: n * (0.5 + area) for an area in halves of a ten-thousandth,
\* as the fraction <<numerator, denominator>>
ScaledIndex(n, half_area) == <<n * (10000 + half_area), 20000>>

\* math.ceil and math.floor of a fraction with a positive denominator
Ceil(x) == -((-x[1]) \div x[2])
Floor(x) == x[1] \div x[2]

\* line 229: the area looked up for the lower bound
LowerArea(z) == sd_to_area((0 - tail_sds) + 2 * z)

\* line 230: the area looked up for the upper bound
UpperArea(z) == sd_to_area(tail_sds + 2 * z)

BiasInit ==
    /\ pc = "sorted"
    /\ num_below_observed \in 0..num_resamples
    /\ z_0 = 0
    /\ bias_corr_lower_bound = 0
    /\ bias_corr_upper_bound = 0
    /\ area_table = area_to_sd_map
    /\ lower_bound = 0
    /\ upper_bound = 0
    /\ area_arg = 0
    /\ sd_ret = 0
    /\ sd_arg = 0
    /\ area_ret = <<"none", 0>>
    /\ SamplerIdle
    /\ ScriptIdle

\* lines 216-230
BiasCorrect ==
    /\ pc = "sorted"
    /\ LET z == area_to_sd(dist_from_center(num_below_observed, num_resamples))
       IN  /\ LowerArea(z)[1] = "ok"
           /\ UpperArea(z)[1] = "ok"
           /\ z_0' = z
           /\ bias_corr_lower_bound' =
                Ceil(ScaledIndex(num_resamples, LowerArea(z)[2]))
           /\ bias_corr_upper_bound' =
                Floor(ScaledIndex(num_resamples, UpperArea(z)[2]))
    /\ pc' = "bounds"
    /\ UNCHANGED <<area_table,
                   num_below_observed, lower_bound, upper_bound, area_arg,
                   sd_ret, sd_arg, area_ret, samplerVars, scriptVars>>

\* lines 229-230: sd_to_area raises IndexError
BiasCorrectRaises ==
    /\ pc = "sorted"
    /\ LET z == area_to_sd(dist_from_center(num_below_observed, num_resamples))
       IN  /\ LowerArea(z)[1] = "IndexError" \/ UpperArea(z)[1] = "IndexError"
           /\ z_0' = z
    /\ pc' = "error"
    /\ UNCHANGED <<area_table,
                   num_below_observed, bias_corr_lower_bound,
                   bias_corr_upper_bound, lower_bound, upper_bound,
                   area_arg, sd_ret, sd_arg, area_ret,
                   samplerVars, scriptVars>>

BiasNext ==
    \/ BiasCorrect
    \/ BiasCorrectRaises

SpecBiasCorrection == BiasInit /\ [][BiasNext]_vars

\* C5: with confidence 0.9 and 10,000 resamples, for every count of bootstrap
\* values below the observed statistic the bias-corrected bound computation
\* completes without an error, and the lower and the upper index it yields
\* are positions 0..9999 of the sorted result list.
C5_BiasBoundsValid ==
    /\ pc # "error"
    /\ pc = "bounds" =>
          /\ bias_corr_lower_bound \in 0..(num_resamples - 1)
          /\ bias_corr_upper_bound \in 0..(num_resamples - 1)

----------------------------------------------------------------------------
(* Diff2MeanConf.py, OneWayAnovaConf.py, TwoWayAnovaConf.py: bootstrap(x)   *)
(* and the resampling step of a bootstrap trial                             *)

\* the values of the samples that are bootstrapped
BootValues == {0, 1}

\* lines 70-74: bootstrap(x), picks[k] being the position random.choice(x)
\* takes for element k
bootstrap(x, picks) == [k \in 1..Len(x) |-> x[picks[k]]]

\* every result bootstrap(x) can have
BootstrapsOf(x) == {bootstrap(x, picks) : picks \in [1..Len(x) -> 1..Len(x)]}

\* a slip at line 113: every group is resampled from the first one
SourceOf_First(grps, g) == grps[1]

\* lines 112-113 (TwoWayAnovaConf.py 324-325): the sample that the resample of
\* group g is drawn from
SourceOf(grps, g) == grps[g]

\* lines 111-113: every list bootstrap_samples the loop over the first k
\* groups can build
RECURSIVE ResampledLists(_, _)
ResampledLists(grps, k) ==
    IF k = 0 THEN {<<>>}
    ELSE {Append(rest, boot) : rest \in ResampledLists(grps, k - 1),
                               boot \in BootstrapsOf(SourceOf(grps, k))}

\* TwoWayAnovaConf.py lines 319-325: every grid bootstrap_samples the loops
\* over the first r rows can build
RECURSIVE ResampledGrids(_, _)
ResampledGrids(grid, r) ==
    IF r = 0 THEN {<<>>}
    ELSE {Append(rest, row) : rest \in ResampledGrids(grid, r - 1),
                              row \in ResampledLists(grid[r], Len(grid[r]))}

\* TwoWayAnovaConf.py lines 286-306: the grids of at most r rows of at most
\* MaxDim cells that hold at most n values together
RECURSIVE GridsOf(_, _)
GridsOf(r, n) ==
    IF r = 0 THEN {<<>>}
    ELSE {<<>>} \cup
         UNION {{<<row>> \o rest :
                    rest \in GridsOf(r - 1, n - Len(Pool(row, Len(row))))} :
                  row \in UNION {GroupListsOf(BootValues, k, n) : k \in 1..MaxDim}}

BootstrapInit ==
    /\ \/ /\ pc = "groups"
          /\ samples \in UNION {GroupListsOf(BootValues, k, MaxPool) :
                                  k \in 0..MaxGroups}
       \/ /\ pc = "grid"
          /\ samples \in GridsOf(MaxDim, MaxPool)
    /\ new_samples = <<>>
    /\ observed = <<0, 1>>
    /\ stat = <<0, 1>>
    /\ count = 0
    /\ i = 0
    /\ out = <<>>
    /\ printed = <<>>
    /\ SamplerIdle
    /\ TableIdle

\* Diff2MeanConf.py lines 111-113, OneWayAnovaConf.py lines 250-252
ResampleGroups ==
    /\ pc = "groups"
    /\ new_samples' \in ResampledLists(samples, Len(samples))
    /\ pc' = "groups resampled"
    /\ UNCHANGED <<samples, observed, stat, count, i, out, printed,
                   samplerVars, tableVars>>

\* TwoWayAnovaConf.py lines 319-325
ResampleGrid ==
    /\ pc = "grid"
    /\ new_samples' \in ResampledGrids(samples, Len(samples))
    /\ pc' = "grid resampled"
    /\ UNCHANGED <<samples, observed, stat, count, i, out, printed,
                   samplerVars, tableVars>>

BootstrapNext ==
    \/ ResampleGroups
    \/ ResampleGrid

SpecBootstrap == BootstrapInit /\ [][BootstrapNext]_vars

\* the resample boot has the length of x and holds only values of x
ResampleOf(boot, x) ==
    /\ Len(boot) = Len(x)
    /\ \A k \in 1..Len(boot) : \E j \in 1..Len(x) : boot[k] = x[j]

\* C9: bootstrap(x) returns exactly len(x) elements, each a value that occurs
\* in x; in a bootstrap trial every group, and every cell of a two-way grid,
\* is resampled from its own values only, so the resampled groups (cells) are
\* as many as the loaded ones and each has the size of the one it stands for.
C9_BootstrapOwnValues ==
    /\ pc = "groups resampled" =>
          /\ Len(new_samples) = Len(samples)
          /\ \A g \in 1..Len(samples) : ResampleOf(new_samples[g], samples[g])
    /\ pc = "grid resampled" =>
          /\ Len(new_samples) = Len(samples)
          /\ \A r \in 1..Len(samples) :
                /\ Len(new_samples[r]) = Len(samples[r])
                /\ \A c \in 1..Len(samples[r]) :
                      ResampleOf(new_samples[r][c], samples[r][c])

\* C9 witness: two groups with different values were resampled, the second
\* into a sequence that is not the loaded one
C9_Witness ==
    /\ pc = "groups resampled"
    /\ Len(samples) = 2
    /\ samples[1] = <<0>>
    /\ samples[2] = <<0, 1>>
    /\ new_samples[2] = <<1, 1>>

----------------------------------------------------------------------------
(* RegressionConf.py: bootstrap(x, y)                                       *)

\* a slip at lines 123-125: y is taken at another draw than x
PairIndex_OtherDraw(draws, k) == draws[Len(draws) + 1 - k]

\* lines 123-125: the index at which y is read for position k, draws[k] being
\* the value of random.randint(0, num_samples - 1) in iteration k
PairIndex(draws, k) == draws[k]

\* lines 118-126
bootstrap_xy(x, y, draws) ==
    <<[k \in 1..Len(x) |-> x[draws[k] + 1]],
      [k \in 1..Len(x) |-> y[PairIndex(draws, k) + 1]]>>

\* line 125: y[index] raises IndexError
bootstrap_xy_raises(x, y, draws) ==
    \E k \in 1..Len(x) : PairIndex(draws, k) >= Len(y)

PairedBootstrapInit ==
    /\ pc = "call"
    /\ samples \in {<<x, y>> : x \in SeqsUpTo(Values, MaxPairs),
                               y \in SeqsUpTo(Values, MaxPairs)}
    /\ new_samples = <<>>
    /\ observed = <<0, 1>>
    /\ stat = <<0, 1>>
    /\ count = 0
    /\ i = 0
    /\ out = <<>>
    /\ printed = <<>>
    /\ SamplerIdle
    /\ TableIdle

\* lines 118-126: (samp_x, samp_y) is returned
PairedBootstrapReturn ==
    /\ pc = "call"
    /\ \E draws \in [1..Len(samples[1]) -> 0..(Len(samples[1]) - 1)] :
          /\ ~bootstrap_xy_raises(samples[1], samples[2], draws)
          /\ new_samples' = bootstrap_xy(samples[1], samples[2], draws)
    /\ pc' = "returned"
    /\ UNCHANGED <<samples, observed, stat, count, i, out, printed,
                   samplerVars, tableVars>>

\* line 125: IndexError
PairedBootstrapRaises ==
    /\ pc = "call"
    /\ \E draws \in [1..Len(samples[1]) -> 0..(Len(samples[1]) - 1)] :
          bootstrap_xy_raises(samples[1], samples[2], draws)
    /\ pc' = "error"
    /\ UNCHANGED <<scriptVars, samplerVars, tableVars>>

PairedBootstrapNext ==
    \/ PairedBootstrapReturn
    \/ PairedBootstrapRaises

SpecPairedBootstrap == PairedBootstrapInit /\ [][PairedBootstrapNext]_vars

\* C8: for x and y of equal length n, bootstrap(x, y) returns two arrays of
\* length n, and at every position the pair (samp_x, samp_y) is the pair
\* (x[j], y[j]) of one original position j.
C8_PairsKept ==
    (pc = "returned" /\ Len(samples[1]) = Len(samples[2])) =>
        /\ Len(new_samples[1]) = Len(samples[1])
        /\ Len(new_samples[2]) = Len(samples[1])
        /\ \A k \in 1..Len(samples[1]) :
              \E j \in 1..Len(samples[1]) :
                  /\ new_samples[1][k] = samples[1][j]
                  /\ new_samples[2][k] = samples[2][j]

\* C8 witness: three distinct pairs were resampled into a sample that repeats
\* one pair and drops another
C8_Witness ==
    /\ pc = "returned"
    /\ samples = <<(<<0, 1, 3>>), (<<3, 0, 1>>)>>
    /\ new_samples = <<(<<1, 1, 0>>), (<<0, 0, 3>>)>>


----------------------------------------------------------------------------
(* RegressionConf.py: a whole run of the confidence interval of a slope    *)

\* lines 144-162: regressionline(grp_x, grp_y), the pair <<a, b>> of
\* fractions.  With nx = len(grp_x), ny = len(grp_y), P the numerator of the
\* sum of products (denominator nx * ny) and S the numerator of the sum of
\* squares of x (denominator nx * nx):  b = (P * nx) / (S * ny)  and
\* a = mean_y - b * mean_x = (sum_y * S - P * sum_x) / (S * ny).
regressionline(grp_x, grp_y) ==
    LET mean_x == <<SumSeq(grp_x), Len(grp_x)>>
        mean_y == <<SumSeq(grp_y), Len(grp_y)>>
        sum_of_prod == sumofproducts(grp_x, grp_y, mean_x, mean_y)
        sum_of_sq_x == sumofsq(grp_x, mean_x)
    IN  <<(<<mean_y[1] * sum_of_sq_x[1] - sum_of_prod[1] * mean_x[1],
             sum_of_sq_x[1] * mean_y[2]>>),
          (<<sum_of_prod[1] * mean_x[2], sum_of_sq_x[1] * mean_y[2]>>)>>

\* lines 151-152: ZeroDivisionError; line 140: IndexError; line 160:
\* ZeroDivisionError
regressionline_raises(grp_x, grp_y) ==
    IF Len(grp_x) = 0 \/ Len(grp_y) = 0 THEN TRUE
    ELSE IF Len(grp_y) < Len(grp_x) THEN TRUE
    ELSE sumofsq(grp_x, <<SumSeq(grp_x), Len(grp_x)>>)[1] = 0

\* lines 173-182: what the loader can make of a file of at most two groups
RegressionInputs == SeqsUpTo(SeqsUpTo(BootValues, MaxPairs), 2)

\* line 207: tails = (1 - conf_interval) / 2, as a fraction
tails == <<10000 - conf_interval, 20000>>

\* line 212: int(math.ceil(num_resamples * tails)) for n resamples
NaiveLower(n) == Ceil(<<n * tails[1], tails[2]>>)

\* line 213: int(math.floor(num_resamples * (1 - tails)))
NaiveUpper(n) == Floor(<<n * (tails[2] - tails[1]), tails[2]>>)

\* lines 216-230 for a count of bootstrap values below the observed one
bias_bounds(below, n) ==
    LET z == area_to_sd(dist_from_center(below, n))
        lower == LowerArea(z)
        upper == UpperArea(z)
    IN  [z_0 |-> z,
         raises |-> lower[1] = "IndexError" \/ upper[1] = "IndexError",
         lower |-> Ceil(ScaledIndex(n, lower[2])),
         upper |-> Floor(ScaledIndex(n, upper[2]))]

\* lines 216-230 for every count the loop of lines 193-202 can leave
bias_bounds_of == [below \in 0..num_resamples |->
                      bias_bounds(below, num_resamples)]

\* out[index] for a list of n elements does not raise IndexError
ValidIndex(index, n) == (0 - n) <= index /\ index < n

\* lines 245-252: the print statements of the report
ReportLines == <<245, 246, 247, 248, 250, 251, 252>>

\* every pair of samples bootstrap(grp_x, grp_y) can return
BootPairs(grp_x, grp_y) ==
    {bootstrap_xy(grp_x, grp_y, draws) :
        draws \in {d \in [1..Len(grp_x) -> 0..(Len(grp_x) - 1)] :
                      ~bootstrap_xy_raises(grp_x, grp_y, d)}}

\* every slope boot_b a trial can compute
BootSlopes(grp_x, grp_y) ==
    {regressionline(boot[1], boot[2])[2] :
        boot \in {c \in BootPairs(grp_x, grp_y) :
                     ~regressionline_raises(c[1], c[2])}}

\* lines 193-202: a trial can raise
TrialRaises(grp_x, grp_y) ==
    \/ \E d \in [1..Len(grp_x) -> 0..(Len(grp_x) - 1)] :
          bootstrap_xy_raises(grp_x, grp_y, d)
    \/ \E boot \in BootPairs(grp_x, grp_y) :
          regressionline_raises(boot[1], boot[2])

RegressionConfInit ==
    /\ pc = "loaded"
    /\ samples \in RegressionInputs
    /\ new_samples = <<>>
    /\ observed = <<0, 1>>
    /\ stat = <<0, 1>>
    /\ count = 0
    /\ i = 0
    /\ out = <<>>
    /\ printed = <<>>
    /\ SamplerIdle
    /\ TableIdle

\* lines 184-187; observed is observed_b (observed_a is only printed, lines
\* 240-246)
RegressionConfObserve ==
    /\ pc = "loaded"
    /\ Len(samples) >= 2
    /\ ~regressionline_raises(samples[1], samples[2])
    /\ observed' = regressionline(samples[1], samples[2])[2]
    /\ pc' = "loop"
    /\ UNCHANGED <<samples, new_samples, stat, count, i, out, printed,
                   samplerVars, tableVars>>

\* lines 184-185: IndexError for a file of fewer than two groups; line 187:
\* regressionline raises
RegressionConfObserveRaises ==
    /\ pc = "loaded"
    /\ IF Len(samples) < 2 THEN TRUE
       ELSE regressionline_raises(samples[1], samples[2])
    /\ pc' = "error"
    /\ UNCHANGED <<scriptVars, samplerVars, tableVars>>

\* lines 189-202: the whole loop of num_resamples trials, none of which
\* raises.  Every trial draws anew, so the count of slopes below the observed
\* one is any number of trials, but for 0 trials when no slope can be below
\* and all trials when every slope is.  The list out then holds
\* num_resamples slopes; it is not kept here, the rest of the run depending
\* only on its length.
RegressionConfResample ==
    /\ pc = "loop"
    /\ LET slopes == BootSlopes(samples[1], samples[2])
           some_below == \E s \in slopes : FracLT(s, observed)
           some_not_below == \E s \in slopes : ~FracLT(s, observed)
       IN  num_below_observed' \in
              IF some_below /\ some_not_below THEN 0..num_resamples
              ELSE IF some_below THEN {num_resamples}
              ELSE IF some_not_below THEN {0}
              ELSE {}
    /\ i' = num_resamples
    /\ pc' = "resampled"
    /\ UNCHANGED <<area_table,
                   samples, new_samples, observed, stat, count, out, printed,
                   samplerVars, area_arg, sd_ret, sd_arg,
                   area_ret, z_0, bias_corr_lower_bound,
                   bias_corr_upper_bound, lower_bound, upper_bound>>

\* lines 193-202: a trial raises (line 125: IndexError; line 198:
\* regressionline raises)
RegressionConfResampleRaises ==
    /\ pc = "loop"
    /\ TrialRaises(samples[1], samples[2])
    /\ pc' = "error"
    /\ UNCHANGED <<scriptVars, samplerVars, tableVars>>

\* lines 204-230: sort, the naive bounds and the bias-corrected bounds
RegressionConfBounds ==
    /\ pc = "resampled"
    /\ LET bounds == bias_bounds_of[num_below_observed]
       IN  /\ ~bounds.raises
           /\ z_0' = bounds.z_0
           /\ bias_corr_lower_bound' = bounds.lower
           /\ bias_corr_upper_bound' = bounds.upper
    /\ lower_bound' = NaiveLower(num_resamples)
    /\ upper_bound' = NaiveUpper(num_resamples)
    /\ pc' = "report"
    /\ UNCHANGED <<area_table,
                   scriptVars, samplerVars, area_arg, sd_ret, sd_arg,
                   area_ret,
                   num_below_observed>>

\* lines 229-230: sd_to_area raises IndexError
RegressionConfBoundsRaises ==
    /\ pc = "resampled"
    /\ LET bounds == bias_bounds_of[num_below_observed]
       IN  /\ bounds.raises
           /\ z_0' = bounds.z_0
    /\ lower_bound' = NaiveLower(num_resamples)
    /\ upper_bound' = NaiveUpper(num_resamples)
    /\ pc' = "error"
    /\ UNCHANGED <<area_table,
                   scriptVars, samplerVars, area_arg, sd_ret, sd_arg,
                   area_ret,
                   num_below_observed, bias_corr_lower_bound,
                   bias_corr_upper_bound>>

\* lines 245-252: the next print statement of the report; those of lines 248
\* and 252 read out at the bounds
RegressionConfPrint ==
    /\ pc = "report"
    /\ Len(printed) < Len(ReportLines)
    /\ ReportLines[Len(printed) + 1] = 248 =>
          /\ ValidIndex(lower_bound, num_resamples)
          /\ ValidIndex(upper_bound, num_resamples)
    /\ ReportLines[Len(printed) + 1] = 252 =>
          /\ ValidIndex(bias_corr_lower_bound, num_resamples)
          /\ ValidIndex(bias_corr_upper_bound, num_resamples)
    /\ printed' = Append(printed, ReportLines[Len(printed) + 1])
    /\ pc' = IF Len(printed) + 1 = Len(ReportLines) THEN "done" ELSE "report"
    /\ UNCHANGED <<samples, new_samples, observed, stat, count, i, out,
                   samplerVars, tableVars>>

RegressionConfNext ==
    \/ RegressionConfObserve
    \/ RegressionConfObserveRaises
    \/ RegressionConfResample
    \/ RegressionConfResampleRaises
    \/ RegressionConfBounds
    \/ RegressionConfBoundsRaises
    \/ RegressionConfPrint

SpecRegressionConf == RegressionConfInit /\ [][RegressionConfNext]_vars


\* how far a run has come: its stage, and in the report the statements
\* printed
Progress ==
    CASE pc = "loaded" -> 0
      [] pc = "loop" -> 1
      [] pc = "resampled" -> 2
      [] pc = "report" -> 3 + Len(printed)
      [] pc = "done" -> 3 + Len(ReportLines)
      [] pc = "error" -> 4 + Len(ReportLines)

\* C11: every run ends, and ends either failed or with its report complete
\* after all num_resamples trials: every step takes the run further, and a
\* run that is neither failed nor done can take a step.  A run that has
\* failed has printed nothing; a run that has printed anything has completed
\* all its trials and computed all its bounds, and the bounds it goes on to
\* read out at are positions of the result list, so that no print statement
\* of the report can fail.
C11_NoPartialReport ==
    /\ [][Progress' > Progress]_vars
    /\ [](pc \in {"done", "error"} \/ ENABLED RegressionConfNext)
    /\ [](pc = "error" => printed = <<>>)
    /\ [](printed # <<>> => pc \in {"report", "done"} /\ i = num_resamples)
    /\ [](pc = "report" =>
            /\ ValidIndex(lower_bound, num_resamples)
            /\ ValidIndex(upper_bound, num_resamples)
            /\ ValidIndex(bias_corr_lower_bound, num_resamples)
            /\ ValidIndex(bias_corr_upper_bound, num_resamples))
    /\ [](pc = "done" => printed = ReportLines)

\* C11 witness: a run failed after all its trials, in the bias-corrected
\* bounds
C11_Witness ==
    /\ pc = "error"
    /\ i = num_resamples
    /\ num_below_observed = 2328
    /\ printed = <<>>


----------------------------------------------------------------------------
(* RegressionSig.py: the significance test of a slope                       *)

\* line 157: is the trial counted
RegressionTallied(observed_b, b) ==
    \/ ~FracNegative(observed_b) /\ FracLT(observed_b, b)
    \/ FracNegative(observed_b) /\ FracLT(b, observed_b)

RegressionSigInit ==
    /\ pc = "loaded"
    /\ samples \in PairedInputs
    /\ new_samples = <<>>
    /\ observed = <<0, 1>>
    /\ stat = <<0, 1>>
    /\ count = 0
    /\ i = 0
    /\ out = <<>>
    /\ printed = <<>>
    /\ SamplerIdle
    /\ TableIdle

\* lines 147-153; observed is observed_b
RegressionSigObserve ==
    /\ pc = "loaded"
    /\ Len(samples) >= 2
    /\ ~regressionline_raises(samples[1], samples[2])
    /\ observed' = regressionline(samples[1], samples[2])[2]
    /\ count' = 0
    /\ i' = 0
    /\ pc' = "loop"
    /\ UNCHANGED <<samples, new_samples, stat, out, printed,
                   samplerVars, tableVars>>

\* lines 147-148: IndexError; line 150: regressionline raises
RegressionSigObserveRaises ==
    /\ pc = "loaded"
    /\ IF Len(samples) < 2 THEN TRUE
       ELSE regressionline_raises(samples[1], samples[2])
    /\ pc' = "error"
    /\ UNCHANGED <<scriptVars, samplerVars, tableVars>>

\* lines 155-159: one trial.  The shuffled y values are as many as grp_y, so
\* regressionline divides by what line 150 divided by.
RegressionSigTrial ==
    /\ pc = "loop"
    /\ LoopContinues(i, NumTrials)
    /\ \E perm \in Permutations(1..Len(samples[2])) :
          LET new_y_values == shuffle(<<samples[2]>>, perm)[1]
              b == regressionline(samples[1], new_y_values)[2]
          IN  /\ new_samples' = <<new_y_values>>
              /\ stat' = b
              /\ count' = IF RegressionTallied(observed, b)
                          THEN count + 1 ELSE count
    /\ i' = i + 1
    /\ UNCHANGED <<pc, samples, observed, out, printed, samplerVars, tableVars>>

\* lines 174-187: the report
RegressionSigOutput ==
    /\ pc = "loop"
    /\ ~LoopContinues(i, NumTrials)
    /\ printed' = <<[observed |-> observed, count |-> count,
                     probability |-> <<count, NumTrials>>]>>
    /\ pc' = "done"
    /\ UNCHANGED <<samples, new_samples, observed, stat, count, i, out,
                   samplerVars, tableVars>>

RegressionSigNext ==
    \/ RegressionSigObserve
    \/ RegressionSigObserveRaises
    \/ RegressionSigTrial
    \/ RegressionSigOutput

SpecRegressionSig == RegressionSigInit /\ [][RegressionSigNext]_vars

\* C13: a trial of the regression significance test adds 1 to the tally
\* exactly when the observed slope is >= 0 and the shuffled slope is >= the
\* observed one, or the observed slope is < 0 and the shuffled slope is <=
\* the observed one; a shuffled slope equal to the observed one is counted.
C13_SlopeTally ==
    [][(pc = "loop" /\ i' = i + 1) =>
          (count' = count + 1 <=>
              \/ /\ observed[1] * observed[2] >= 0
                 /\ stat'[1] * observed[2] >= observed[1] * stat'[2]
              \/ /\ observed[1] * observed[2] < 0
                 /\ stat'[1] * observed[2] <= observed[1] * stat'[2])]_vars


----------------------------------------------------------------------------
(* FishersExactTestSig.py: the one-tailed Fisher's exact test of a table    *)

MaxCases == 10     \* most cases a + b + c + d of a loaded table

\* the greatest common divisor of two naturals
RECURSIVE GCD(_, _)
GCD(p, q) == IF q = 0 THEN p ELSE GCD(q, p % q)

\* exact product and sum of fractions in lowest terms, in lowest terms
FracMul(x, y) ==
    LET g == GCD(Abs(x[1]), y[2])
        h == GCD(Abs(y[1]), x[2])
    IN  <<(x[1] \div g) * (y[1] \div h), (x[2] \div h) * (y[2] \div g)>>

FracAdd(x, y) ==
    LET num == x[1] * y[2] + y[1] * x[2]
        den == x[2] * y[2]
        g == GCD(Abs(num), den)
    IN  <<num \div g, den \div g>>

\* a quotient of two positive integers in lowest terms
Quotient(p, q) == <<p \div GCD(p, q), q \div GCD(p, q)>>

\* lines 143-147; range(n) is empty for n <= 0
RECURSIVE factorial(_)
factorial(n) == IF n <= 0 THEN 1 ELSE factorial(n - 1) * n

\* a slip at line 151: d is left out of the number of cases
prob_of_matrix_CasesWithoutD(a, b, c, d) ==
    FracMul(FracMul(FracMul(FracMul(
        Quotient(factorial(a + b), factorial(a)),
        Quotient(factorial(c + d), factorial(b))),
        Quotient(factorial(a + c), factorial(c))),
        Quotient(factorial(b + d), factorial(d))),
        Quotient(1, factorial(a + b + c)))

\* lines 149-151: the quotient of the two products of factorials, multiplied
\* out factor by factor in lowest terms
prob_of_matrix(a, b, c, d) ==
    FracMul(FracMul(FracMul(FracMul(
        Quotient(factorial(a + b), factorial(a)),
        Quotient(factorial(c + d), factorial(b))),
        Quotient(factorial(a + c), factorial(c))),
        Quotient(factorial(b + d), factorial(d))),
        Quotient(1, factorial(a + b + c + d)))

\* a slip at line 175: only tables more extreme than the observed one count
AsExtreme_Strict(a_prime, d_prime, a, d) == a_prime + d_prime > a + d

\* line 175
AsExtreme(a_prime, d_prime, a, d) == a_prime + d_prime >= a + d

\* lines 166-176: what one iteration of the loop adds to prob_tail
TailTerm(a, b, c, d, a_prime) ==
    LET b_prime == a + b - a_prime
        c_prime == a + c - a_prime
        d_prime == c + d - c_prime
    IN  IF b_prime >= 0 /\ c_prime >= 0 /\ d_prime >= 0
           /\ AsExtreme(a_prime, d_prime, a, d)
        THEN prob_of_matrix(a_prime, b_prime, c_prime, d_prime)
        ELSE <<0, 1>>

\* lines 164-176: prob_tail after the iterations a_prime = 0 .. k - 1
RECURSIVE TailUpTo(_, _, _, _, _)
TailUpTo(a, b, c, d, k) ==
    IF k = 0 THEN <<0, 1>>
    ELSE FracAdd(TailUpTo(a, b, c, d, k - 1), TailTerm(a, b, c, d, k - 1))

\* lines 153-177; range(a + b + c + d + 1)
fishers_exact_test(a, b, c, d) == TailUpTo(a, b, c, d, a + b + c + d + 1)

\* lines 191-196: the rows (a, b) and (c, d) of a file of counts
FisherInputs ==
    {<<(<<a, b>>), (<<c, d>>)>> :
        a \in 0..MaxCases, b \in 0..MaxCases,
        c \in 0..MaxCases, d \in 0..MaxCases}

FisherTestInit ==
    /\ pc = "loaded"
    /\ samples \in {t \in FisherInputs :
                      t[1][1] + t[1][2] + t[2][1] + t[2][2] <= MaxCases}
    /\ new_samples = <<>>
    /\ observed = <<0, 1>>
    /\ stat = <<0, 1>>
    /\ count = 0
    /\ i = 0
    /\ out = <<>>
    /\ printed = <<>>
    /\ SamplerIdle
    /\ TableIdle

\* line 198; observed is observed_prob_tail
FisherTestObserve ==
    /\ pc = "loaded"
    /\ observed' = fishers_exact_test(samples[1][1], samples[1][2],
                                      samples[2][1], samples[2][2])
    /\ pc' = "observed"
    /\ UNCHANGED <<samples, new_samples, stat, count, i, out, printed,
                   samplerVars, tableVars>>

FisherTestNext == FisherTestObserve

SpecFisherTest == FisherTestInit /\ [][FisherTestNext]_vars

\* the 2x2 tables of non-negative integers with the row and column totals of
\* (a, b, c, d) and a' + d' >= a + d; a cell is at most the total of its row
ExtremeTables(a, b, c, d) ==
    {t \in (0..(a + b)) \X (0..(a + b)) \X (0..(c + d)) \X (0..(c + d)) :
        /\ t[1] + t[2] = a + b
        /\ t[3] + t[4] = c + d
        /\ t[1] + t[3] = a + c
        /\ t[2] + t[4] = b + d
        /\ t[1] + t[4] >= a + d}

\* the sum of the probabilities of the tables of a set
RECURSIVE SumOfProbs(_)
SumOfProbs(tables) ==
    IF tables = {} THEN <<0, 1>>
    ELSE LET t == CHOOSE u \in tables : TRUE
         IN  FracAdd(prob_of_matrix(t[1], t[2], t[3], t[4]),
                     SumOfProbs(tables \ {t}))

C16_WorkedExample ==
    (pc = "observed" /\ samples = <<(<<3, 1>>), (<<2, 4>>)>>) =>
        /\ observed[1] * 252 = 66 * observed[2]
        /\ \A a_prime \in 0..10 :
              LET term == TailTerm(3, 1, 2, 4, a_prime)
              IN  term[1] * 252 =
                    (IF a_prime = 3 THEN 60 ELSE IF a_prime = 4 THEN 6 ELSE 0)
                        * term[2]

\* C16 witness: the test of the worked example has been computed
C16_Witness ==
    /\ pc = "observed"
    /\ samples = <<(<<3, 1>>), (<<2, 4>>)>>
    /\ observed = <<11, 42>>


----------------------------------------------------------------------------
(* area_to_sd as a function of its argument; areas are in halves of a       *)
(* ten-thousandth, from -0.5 to 0.5                                         *)

AreaToSdInit ==
    /\ pc = "call"
    /\ area_arg \in (-10000)..10000
    /\ sd_ret = 0
    /\ sd_arg = 0
    /\ area_ret = <<"none", 0>>
    /\ num_below_observed = 0
    /\ z_0 = 0
    /\ bias_corr_lower_bound = 0
    /\ bias_corr_upper_bound = 0
    /\ area_table = area_to_sd_map
    /\ lower_bound = 0
    /\ upper_bound = 0
    /\ SamplerIdle
    /\ ScriptIdle

\* lines 101-113: the call returns
AreaToSdReturn ==
    /\ pc = "call"
    /\ sd_ret' = area_to_sd(<<area_arg, 2>>)
    /\ pc' = "returned"
    /\ UNCHANGED <<area_table,
                   area_arg, sd_arg, area_ret, num_below_observed, z_0,
                   bias_corr_lower_bound, bias_corr_upper_bound, lower_bound,
                   upper_bound, samplerVars, scriptVars>>

AreaToSdNext == AreaToSdReturn

SpecAreaToSd == AreaToSdInit /\ [][AreaToSdNext]_vars

\* C17: area_to_sd(area), with s the sign of area and v = |area|, returns
\* s * a / 100 when v is the table entry at index a, s * (a - 0.5) / 100 when
\* v lies strictly between the entries at a - 1 and a, and s * 2.99 when v is
\* larger than every entry; so 0.1915 gives 0.50, 0.0040 gives 0.01 and 0.45
\* gives 1.645.
C17_AreaToSd ==
    pc = "returned" =>
        LET s == IF area_arg < 0 THEN -1 ELSE 1
            v == Abs(area_arg)
            last == Len(area_to_sd_map) - 1
        IN  /\ (\E a \in 0..last : v = 2 * area_to_sd_map[a + 1]) =>
                  \E a \in 0..last : /\ v = 2 * area_to_sd_map[a + 1]
                                     /\ sd_ret = s * 10 * a
            /\ \A a \in 1..last :
                  (2 * area_to_sd_map[a] < v /\ v < 2 * area_to_sd_map[a + 1])
                      => sd_ret = s * (10 * a - 5)
            /\ (\A a \in 0..last : v > 2 * area_to_sd_map[a + 1]) =>
                  sd_ret = s * 2990
            /\ area_arg = 2 * 1915 => sd_ret = 500
            /\ area_arg = 2 * 40 => sd_ret = 10
            /\ area_arg = 2 * 4500 => sd_ret = 1645

----------------------------------------------------------------------------
(* sd_to_area between two entries of the table *)

\* C18 as claimed: for |sd| inside the range of the table, sd_to_area(sd) is
\* sign(sd) * table[i] when |sd| * 100 is the integer i, and otherwise
\* sign(sd) times the linear interpolation between table[i] and table[i + 1]
\* at the fractional position of |sd| * 100 between i and i + 1.
C18_LinearInterpolation ==
    (pc \in {"returned", "error"}
        /\ Abs(sd_arg) <= 10 * (Len(area_to_sd_map) - 1)) =>
        LET index == Abs(sd_arg) \div 10
            tenths == Abs(sd_arg) % 10
            sign == IF sd_arg < 0 THEN -1 ELSE 1
        IN  /\ area_ret[1] = "ok"
            /\ IF tenths = 0
               THEN area_ret[2] = 2 * sign * area_to_sd_map[index + 1]
               ELSE 10 * area_ret[2] =
                      2 * sign
                        * (10 * area_to_sd_map[index + 1]
                             + tenths * (area_to_sd_map[index + 2]
                                           - area_to_sd_map[index + 1]))

\* C18 as amended: for |sd| inside the range of the table, sd_to_area(sd) is
\* sign(sd) * table[i] when |sd| * 100 is the integer i, and otherwise
\* sign(sd) times the mean of table[i] and table[i + 1], wherever |sd| * 100
\* lies between i and i + 1.
C18_Midpoint ==
    (pc \in {"returned", "error"}
        /\ Abs(sd_arg) <= 10 * (Len(area_to_sd_map) - 1)) =>
        LET index == Abs(sd_arg) \div 10
            sign == IF sd_arg < 0 THEN -1 ELSE 1
        IN  /\ area_ret[1] = "ok"
            /\ IF Abs(sd_arg) % 10 = 0
               THEN area_ret[2] = 2 * sign * area_to_sd_map[index + 1]
               ELSE area_ret[2] =
                      sign * (area_to_sd_map[index + 1]
                                + area_to_sd_map[index + 2])

\* C18 witness: sd_to_area(-0.501) has returned, the negative of the mean of
\* the entries for 0.50 and 0.51
C18_Witness ==
    /\ pc = "returned"
    /\ sd_arg = -501
    /\ area_ret = <<"ok", -(1915 + 1950)>>

----------------------------------------------------------------------------
(* area_to_sd(sd_to_area(x)) for x in the range of the table *)

RoundTripInit ==
    /\ pc = "call"
    /\ sd_arg \in 0..(10 * (Len(area_to_sd_map) - 1))
    /\ area_ret = <<"none", 0>>
    /\ area_arg = 0
    /\ sd_ret = 0
    /\ num_below_observed = 0
    /\ z_0 = 0
    /\ bias_corr_lower_bound = 0
    /\ bias_corr_upper_bound = 0
    /\ area_table = area_to_sd_map
    /\ lower_bound = 0
    /\ upper_bound = 0
    /\ SamplerIdle
    /\ ScriptIdle

\* lines 89-99: sd_to_area(x); it does not raise for 0 <= x <= 3.09
RoundTripArea ==
    /\ pc = "call"
    /\ sd_to_area(sd_arg)[1] = "ok"
    /\ area_ret' = sd_to_area(sd_arg)
    /\ pc' = "area"
    /\ UNCHANGED <<area_table,
                   area_arg, sd_ret, sd_arg, num_below_observed, z_0,
                   bias_corr_lower_bound, bias_corr_upper_bound, lower_bound,
                   upper_bound, samplerVars, scriptVars>>

\* lines 101-113: area_to_sd of that area
RoundTripSd ==
    /\ pc = "area"
    /\ area_arg' = area_ret[2]
    /\ sd_ret' = area_to_sd(<<area_ret[2], 2>>)
    /\ pc' = "returned"
    /\ UNCHANGED <<area_table,
                   sd_arg, area_ret, num_below_observed, z_0,
                   bias_corr_lower_bound, bias_corr_upper_bound, lower_bound,
                   upper_bound, samplerVars, scriptVars>>

RoundTripNext ==
    \/ RoundTripArea
    \/ RoundTripSd

SpecRoundTrip == RoundTripInit /\ [][RoundTripNext]_vars

\* C19: for every x of 0, 0.005, 0.010, ..., 2.99,
\* |area_to_sd(sd_to_area(x)) - x| <= 0.01.
C19_RoundTrip ==
    (pc = "returned" /\ sd_arg % 5 = 0 /\ sd_arg <= 2990) =>
        Abs(sd_ret - sd_arg) <= 10


----------------------------------------------------------------------------
(* Diff2MeanConf.py: the confidence interval of a difference of two means   *)

\* list.sort() of a list of fractions: x put into the sorted list s
RECURSIVE InsertSorted(_, _)
InsertSorted(s, x) ==
    IF s = <<>> THEN <<x>>
    ELSE IF FracLT(x, Head(s)) THEN <<x>> \o s
    ELSE <<Head(s)>> \o InsertSorted(Tail(s), x)

\* a slip at line 117: the list is left as the trials made it
SortedList_Unsorted(s) == s

\* line 117: out.sort()
RECURSIVE SortedList(_)
SortedList(s) ==
    IF s = <<>> THEN <<>>
    ELSE InsertSorted(SortedList(SubSeq(s, 1, Len(s) - 1)), s[Len(s)])

Diff2MeanConfInit ==
    /\ pc = "loaded"
    /\ samples \in UNION {GroupListsOf(BootValues, k, MaxPool) :
                            k \in 0..MaxGroups}
    /\ new_samples = <<>>
    /\ observed = <<0, 1>>
    /\ stat = <<0, 1>>
    /\ count = 0
    /\ i = 0
    /\ out = <<>>
    /\ printed = <<>>
    /\ SamplerIdle
    /\ TableIdle

\* lines 102-105, with a = 0 and b = 1 (lines 88-89)
Diff2MeanConfObserve ==
    /\ pc = "loaded"
    /\ Len(samples) >= 2
    /\ ~meandiff_raises(samples[1], samples[2])
    /\ observed' = meandiff(samples[1], samples[2])
    /\ i' = 0
    /\ out' = <<>>
    /\ pc' = "loop"
    /\ UNCHANGED <<samples, new_samples, stat, count, printed,
                   samplerVars, tableVars>>

\* line 102: IndexError or ZeroDivisionError
Diff2MeanConfObserveRaises ==
    /\ pc = "loaded"
    /\ IF Len(samples) < 2 THEN TRUE
       ELSE meandiff_raises(samples[1], samples[2])
    /\ pc' = "error"
    /\ UNCHANGED <<scriptVars, samplerVars, tableVars>>

\* lines 107-115: one trial.  The bootstrap samples have the sizes of the
\* loaded ones, so meandiff divides by what line 102 divided by.
Diff2MeanConfTrial ==
    /\ pc = "loop"
    /\ LoopContinues(i, NumTrials)
    /\ \E bootstrap_samples \in ResampledLists(samples, Len(samples)) :
          /\ new_samples' = bootstrap_samples
          /\ stat' = meandiff(bootstrap_samples[1], bootstrap_samples[2])
          /\ out' = Append(out, meandiff(bootstrap_samples[1],
                                         bootstrap_samples[2]))
    /\ i' = i + 1
    /\ UNCHANGED <<pc, samples, observed, count, printed,
                   samplerVars, tableVars>>

\* lines 117-125, the loop having run its NumTrials trials
Diff2MeanConfBounds ==
    /\ pc = "loop"
    /\ ~LoopContinues(i, NumTrials)
    /\ out' = SortedList(out)
    /\ lower_bound' = NaiveLower(NumTrials)
    /\ upper_bound' = NaiveUpper(NumTrials)
    /\ pc' = "sorted"
    /\ UNCHANGED <<area_table,
                   samples, new_samples, observed, stat, count, i, printed,
                   samplerVars, area_arg, sd_ret, sd_arg, area_ret,
                   num_below_observed, z_0, bias_corr_lower_bound,
                   bias_corr_upper_bound>>

\* lines 134-136: the report
Diff2MeanConfOutput ==
    /\ pc = "sorted"
    /\ ValidIndex(lower_bound, Len(out))
    /\ ValidIndex(upper_bound, Len(out))
    /\ printed' = <<[observed |-> observed,
                     lower |-> out[lower_bound + 1],
                     upper |-> out[upper_bound + 1]]>>
    /\ pc' = "done"
    /\ UNCHANGED <<samples, new_samples, observed, stat, count, i, out,
                   samplerVars, tableVars>>

Diff2MeanConfNext ==
    \/ Diff2MeanConfObserve
    \/ Diff2MeanConfObserveRaises
    \/ Diff2MeanConfTrial
    \/ Diff2MeanConfBounds
    \/ Diff2MeanConfOutput

SpecDiff2MeanConf == Diff2MeanConfInit /\ [][Diff2MeanConfNext]_vars

\* C20: with tail = (1 - confidence) / 2 and N results, the lower index is
\* the least integer >= N * tail and the upper index the greatest integer
\* <= N * (1 - tail); for N = 10000 and confidence 0.9 they are 500 and 9500;
\* both are positions of the sorted list of N results, and the reported
\* lower bound is never greater than the reported upper bound.
C20_NaiveInterval ==
    /\ NaiveLower(num_resamples) = 500
    /\ NaiveUpper(num_resamples) = 9500
    /\ pc \in {"sorted", "done"} =>
          /\ Len(out) = NumTrials
          /\ 20000 * lower_bound >= NumTrials * (10000 - conf_interval)
          /\ 20000 * (lower_bound - 1) < NumTrials * (10000 - conf_interval)
          /\ 20000 * upper_bound <= NumTrials * (10000 + conf_interval)
          /\ 20000 * (upper_bound + 1) > NumTrials * (10000 + conf_interval)
          /\ lower_bound \in 0..(Len(out) - 1)
          /\ upper_bound \in 0..(Len(out) - 1)
          /\ \A k \in 1..(Len(out) - 1) :
                out[k][1] * out[k + 1][2] <= out[k + 1][1] * out[k][2]
    /\ pc = "done" =>
          /\ printed[1].lower = out[lower_bound + 1]
          /\ printed[1].upper = out[upper_bound + 1]
          /\ printed[1].lower[1] * printed[1].upper[2]
                <= printed[1].upper[1] * printed[1].lower[2]

\* C20 witness: a report whose bounds differ, made from trials that did not
\* come in ascending order
C20_Witness ==
    /\ pc = "done"
    /\ printed[1].lower[1] * printed[1].upper[2]
          < printed[1].upper[1] * printed[1].lower[2]
    /\ stat[1] * out[Len(out)][2] < out[Len(out)][1] * stat[2]

----------------------------------------------------------------------------
(* RegressionSig.py, CorrelationSig.py, RegressionConf.py: regressionline,  *)
(* corrcoef and bootstrap called on a loaded pair of lists x and y          *)

PairedCallInit ==
    /\ pc = "loaded"
    /\ samples \in {<<x, y>> : x \in SeqsUpTo(Values, MaxPairs),
                               y \in SeqsUpTo(Values, MaxPairs)}
    /\ new_samples = <<>>
    /\ observed = <<0, 1>>
    /\ stat = <<0, 1>>
    /\ count = 0
    /\ i = 0
    /\ out = <<>>
    /\ printed = <<>>
    /\ SamplerIdle
    /\ TableIdle

\* RegressionSig.py lines 107-125: regressionline(grp_x, grp_y) returns
RegressionlineReturn ==
    /\ pc = "loaded"
    /\ ~regressionline_raises(samples[1], samples[2])
    /\ stat' = regressionline(samples[1], samples[2])[2]
    /\ pc' = "regressionline"
    /\ UNCHANGED <<samples, new_samples, observed, count, i, out, printed,
                   samplerVars, tableVars>>

\* RegressionSig.py lines 114-115, 103, 123: regressionline raises
RegressionlineRaises ==
    /\ pc = "loaded"
    /\ regressionline_raises(samples[1], samples[2])
    /\ pc' = "regressionline raised"
    /\ UNCHANGED <<scriptVars, samplerVars, tableVars>>

\* CorrelationSig.py lines 87-102: corrcoef(grp_x, grp_y) returns
CorrcoefReturn ==
    /\ pc = "loaded"
    /\ ~corrcoef_raises(samples[1], samples[2], samples[1], samples[2])
    /\ stat' = corrcoef(samples[1], samples[2], samples[1], samples[2])
    /\ pc' = "corrcoef"
    /\ UNCHANGED <<samples, new_samples, observed, count, i, out, printed,
                   samplerVars, tableVars>>

\* CorrelationSig.py lines 92-93, 83, 102: corrcoef raises
CorrcoefRaises ==
    /\ pc = "loaded"
    /\ corrcoef_raises(samples[1], samples[2], samples[1], samples[2])
    /\ pc' = "corrcoef raised"
    /\ UNCHANGED <<scriptVars, samplerVars, tableVars>>

\* RegressionConf.py lines 118-126: bootstrap(x, y) returns
PairedCallBootstrapReturn ==
    /\ pc = "loaded"
    /\ \E draws \in [1..Len(samples[1]) -> 0..(Len(samples[1]) - 1)] :
          /\ ~bootstrap_xy_raises(samples[1], samples[2], draws)
          /\ new_samples' = bootstrap_xy(samples[1], samples[2], draws)
    /\ pc' = "bootstrap"
    /\ UNCHANGED <<samples, observed, stat, count, i, out, printed,
                   samplerVars, tableVars>>

\* RegressionConf.py line 125: bootstrap(x, y) raises IndexError
PairedCallBootstrapRaises ==
    /\ pc = "loaded"
    /\ \E draws \in [1..Len(samples[1]) -> 0..(Len(samples[1]) - 1)] :
          bootstrap_xy_raises(samples[1], samples[2], draws)
    /\ pc' = "bootstrap raised"
    /\ UNCHANGED <<scriptVars, samplerVars, tableVars>>

PairedCallNext ==
    \/ RegressionlineReturn
    \/ RegressionlineRaises
    \/ CorrcoefReturn
    \/ CorrcoefRaises
    \/ PairedCallBootstrapReturn
    \/ PairedCallBootstrapRaises

SpecPairedCall == PairedCallInit /\ [][PairedCallNext]_vars

\* C21: on lists x and y of different lengths, y longer or y shorter,
\* regressionline and corrcoef raise and return no slope and no r, and the
\* paired bootstrap returns no resample.
C21_MismatchRejected ==
    Len(samples[1]) # Len(samples[2]) =>
        pc \notin {"regressionline", "corrcoef", "bootstrap"}

----------------------------------------------------------------------------
(* Exact quotients.  A fraction whose denominator is 0 stands for what a    *)
(* division by zero would give if it did not raise.                         *)

\* a fraction in lowest terms with a denominator that is not negative
Lowest(x) ==
    IF x[2] = 0 THEN x
    ELSE LET g == GCD(Abs(x[1]), Abs(x[2]))
             s == IF x[2] < 0 THEN -1 ELSE 1
         IN  <<s * (x[1] \div g), s * (x[2] \div g)>>

FracPlus(x, y) == Lowest(<<x[1] * y[2] + y[1] * x[2], x[2] * y[2]>>)
FracMinus(x, y) == Lowest(<<x[1] * y[2] - y[1] * x[2], x[2] * y[2]>>)
FracTimes(x, y) == Lowest(<<x[1] * y[1], x[2] * y[2]>>)
FracOver(x, y) == Lowest(<<x[1] * y[2], x[2] * y[1]>>)

----------------------------------------------------------------------------
(* OneWayAnovaSig.py: the significance test of a one-way analysis of        *)
(* variance                                                                 *)

\* lines 129-132: within_group_mean of a group
GroupMean(grp) == <<SumSeq(grp), Len(grp)>>

\* lines 128-147: within_ss after the first k groups
RECURSIVE WithinSS(_, _)
WithinSS(grps, k) ==
    IF k = 0 THEN <<0, 1>>
    ELSE FracPlus(WithinSS(grps, k - 1),
                  sumofsq(grps[k], GroupMean(grps[k])))

\* lines 112-118: weightedsumofsq(vals, weights, mean) over the first k values
RECURSIVE weightedsumofsq(_, _, _, _)
weightedsumofsq(vals, weights, mean, k) ==
    IF k = 0 THEN <<0, 1>>
    ELSE LET diff == FracMinus(vals[k], mean)
         IN  FracPlus(weightedsumofsq(vals, weights, mean, k - 1),
                      FracTimes(weights[k], FracTimes(diff, diff)))

\* lines 121-190: onewayanova(grps), the value of f_stat
onewayanova(grps) ==
    LET num_grps == Len(grps)
        within_group_means == [k \in 1..num_grps |-> GroupMean(grps[k])]
        grp_counts == [k \in 1..num_grps |-> <<Len(grps[k]), 1>>]
        total_count == PoolSize(grps)
        total_mean == <<SumSeq(Pool(grps, num_grps)), total_count>>
        within_ss == WithinSS(grps, num_grps)
        between_ss == weightedsumofsq(within_group_means, grp_counts,
                                      total_mean, num_grps)
        between_df == num_grps - 1
        within_df == total_count - num_grps
        within_var == FracOver(within_ss, <<within_df, 1>>)
        between_var == FracOver(between_ss, <<between_df, 1>>)
    IN  FracOver(between_var, within_var)

\* a slip: a zero within-group variance goes unnoticed
onewayanova_raises_ZeroVarianceOverlooked(grps) ==
    \/ \E k \in 1..Len(grps) : Len(grps[k]) = 0
    \/ PoolSize(grps) = 0
    \/ PoolSize(grps) - Len(grps) = 0
    \/ Len(grps) - 1 = 0

\* the divisions of onewayanova that raise ZeroDivisionError: line 132 (an
\* empty group), line 149 (no value at all), line 185 (within_df is 0),
\* line 186 (between_df is 0), line 188 (within_var is 0)
onewayanova_raises(grps) ==
    \/ \E k \in 1..Len(grps) : Len(grps[k]) = 0
    \/ PoolSize(grps) = 0
    \/ PoolSize(grps) - Len(grps) = 0
    \/ Len(grps) - 1 = 0
    \/ WithinSS(grps, Len(grps))[1] = 0

OneWayAnovaSigInit ==
    /\ pc = "OneWayAnovaSig loaded"
    /\ samples \in GroupLists
    /\ new_samples = <<>>
    /\ observed = <<0, 1>>
    /\ stat = <<0, 1>>
    /\ count = 0
    /\ i = 0
    /\ out = <<>>
    /\ printed = <<>>
    /\ SamplerIdle
    /\ TableIdle

\* lines 212-215
OneWayAnovaSigObserve ==
    /\ pc = "OneWayAnovaSig loaded"
    /\ ~onewayanova_raises(samples)
    /\ observed' = onewayanova(samples)
    /\ count' = 0
    /\ i' = 0
    /\ pc' = "OneWayAnovaSig loop"
    /\ UNCHANGED <<samples, new_samples, stat, out, printed,
                   samplerVars, tableVars>>

\* line 212: onewayanova raises
OneWayAnovaSigObserveRaises ==
    /\ pc = "OneWayAnovaSig loaded"
    /\ onewayanova_raises(samples)
    /\ pc' = "OneWayAnovaSig error"
    /\ UNCHANGED <<scriptVars, samplerVars, tableVars>>

\* lines 217-221: one trial
OneWayAnovaSigTrial ==
    /\ pc = "OneWayAnovaSig loop"
    /\ LoopContinues(i, NumTrials)
    /\ \E perm \in Permutations(1..PoolSize(samples)) :
          LET shuffled == shuffle(samples, perm)
          IN  /\ ~onewayanova_raises(shuffled)
              /\ new_samples' = shuffled
              /\ stat' = onewayanova(shuffled)
              /\ count' = IF FracLE(observed, onewayanova(shuffled))
                          THEN count + 1 ELSE count
    /\ i' = i + 1
    /\ UNCHANGED <<pc, samples, observed, out, printed, samplerVars, tableVars>>

\* lines 218-219: the shuffle is made and onewayanova raises
OneWayAnovaSigTrialRaises ==
    /\ pc = "OneWayAnovaSig loop"
    /\ LoopContinues(i, NumTrials)
    /\ \E perm \in Permutations(1..PoolSize(samples)) :
          /\ onewayanova_raises(shuffle(samples, perm))
          /\ new_samples' = shuffle(samples, perm)
    /\ pc' = "OneWayAnovaSig error"
    /\ UNCHANGED <<samples, observed, stat, count, i, out, printed,
                   samplerVars, tableVars>>

\* lines 229-232: the report
OneWayAnovaSigOutput ==
    /\ pc = "OneWayAnovaSig loop"
    /\ ~LoopContinues(i, NumTrials)
    /\ printed' = <<[observed |-> observed, count |-> count,
                     probability |-> <<count, NumTrials>>]>>
    /\ pc' = "OneWayAnovaSig done"
    /\ UNCHANGED <<samples, new_samples, observed, stat, count, i, out,
                   samplerVars, tableVars>>

OneWayAnovaSigNext ==
    \/ OneWayAnovaSigObserve
    \/ OneWayAnovaSigObserveRaises
    \/ OneWayAnovaSigTrial
    \/ OneWayAnovaSigTrialRaises
    \/ OneWayAnovaSigOutput

SpecOneWayAnovaSig == OneWayAnovaSigInit /\ [][OneWayAnovaSigNext]_vars

----------------------------------------------------------------------------
(* ChiSquaredMulti.py: the chi-squared test of a table of two variables     *)

MaxLabels == 4     \* most cases counted in a table of two variables

\* lines 148-158: the totals the loader keeps of num_rows rows of num_cols
\* counts, read row after row
RowTotals(counts, num_rows, num_cols) ==
    [r \in 1..num_rows |->
        SumSeq(SubSeq(counts, (r - 1) * num_cols + 1, r * num_cols))]

RECURSIVE ColumnTotal(_, _, _, _)
ColumnTotal(counts, num_cols, c, r) ==
    IF r = 0 THEN 0
    ELSE ColumnTotal(counts, num_cols, c, r - 1)
           + counts[(r - 1) * num_cols + c]

ColumnTotals(counts, num_rows, num_cols) ==
    IF num_rows = 0 THEN <<>>
    ELSE [c \in 1..num_cols |-> ColumnTotal(counts, num_cols, c, num_rows)]

\* the lists of k counts that count at most n cases together
RECURSIVE CountLists(_, _)
CountLists(k, n) ==
    IF k = 0 THEN {<<>>}
    ELSE UNION {{<<v>> \o rest : rest \in CountLists(k - 1, n - v)} :
                  v \in 0..n}

\* lines 142-159: observed, row_totals and column_totals after loading
LoadedTables ==
    UNION {{[observed |-> counts,
             row_totals |-> RowTotals(counts, num_rows, num_cols),
             column_totals |-> ColumnTotals(counts, num_rows, num_cols)] :
               counts \in CountLists(num_rows * num_cols, MaxLabels)} :
             num_rows \in 0..MaxDim, num_cols \in 1..MaxDim}

\* lines 105-111: row_vals after the first k cells: the row of every case
RECURSIVE row_vals(_, _, _)
row_vals(counts, num_cols, k) ==
    IF k = 0 THEN <<>>
    ELSE row_vals(counts, num_cols, k - 1)
           \o [n \in 1..counts[k] |-> (k - 1) \div num_cols]

\* lines 105-111: col_vals after the first k cells: the column of every case
RECURSIVE col_vals(_, _, _)
col_vals(counts, num_cols, k) ==
    IF k = 0 THEN <<>>
    ELSE col_vals(counts, num_cols, k - 1)
           \o [n \in 1..counts[k] |-> (k - 1) % num_cols]

\* a slip at line 115: every case gets the column label of one case
ShuffledLabels_OneLabel(labels, perm) ==
    [k \in 1..Len(labels) |-> labels[perm[1]]]

\* line 115: random.shuffle(col_vals), perm being the permutation drawn
ShuffledLabels(labels, perm) == [k \in 1..Len(labels) |-> labels[perm[k]]]

\* lines 93-127: shuffle(observed, num_rows, num_cols); the name shuffle is
\* that of the group shuffler above
chi_shuffle(counts, num_rows, num_cols, perm) ==
    LET rows == row_vals(counts, num_cols, num_rows * num_cols)
        cols == ShuffledLabels(col_vals(counts, num_cols,
                                        num_rows * num_cols), perm)
    IN  [n \in 1..(num_rows * num_cols) |->
            Cardinality({k \in 1..Len(rows) :
                            rows[k] * num_cols + cols[k] = n - 1})]

\* the number of cases of a table
NumCases(counts) == SumSeq(counts)

\* lines 161-167: expected, a list of fractions
expected_counts(table) ==
    LET total == SumSeq(table.column_totals)
        num_cols == Len(table.column_totals)
    IN  [n \in 1..(Len(table.row_totals) * num_cols) |->
            Lowest(<<table.row_totals[((n - 1) \div num_cols) + 1]
                       * table.column_totals[((n - 1) % num_cols) + 1],
                     total>>)]

\* line 167: the division by float(total) raises ZeroDivisionError
expected_raises(table) ==
    /\ Len(table.row_totals) > 0
    /\ Len(table.column_totals) > 0
    /\ SumSeq(table.column_totals) = 0

\* lines 129-134: chisquared(expected, counts) after the first k cells
RECURSIVE ChiSquaredUpTo(_, _, _)
ChiSquaredUpTo(expected, counts, k) ==
    IF k = 0 THEN <<0, 1>>
    ELSE LET diff == FracMinus(<<counts[k], 1>>, expected[k])
         IN  FracPlus(ChiSquaredUpTo(expected, counts, k - 1),
                      FracOver(FracTimes(diff, diff), expected[k]))

chisquared(expected, counts) ==
    ChiSquaredUpTo(expected, counts, Len(expected))

\* line 133: the division by float(expected[i]) raises ZeroDivisionError
chisquared_raises(expected, counts) ==
    \E k \in 1..Len(expected) : expected[k][1] = 0

ChiSquaredMultiInit ==
    /\ pc = "ChiSquaredMulti loaded"
    /\ samples \in LoadedTables
    /\ new_samples = <<>>
    /\ observed = <<0, 1>>
    /\ stat = <<0, 1>>
    /\ count = 0
    /\ i = 0
    /\ out = <<>>
    /\ printed = <<>>
    /\ SamplerIdle
    /\ TableIdle

\* lines 161-172
ChiSquaredMultiObserve ==
    /\ pc = "ChiSquaredMulti loaded"
    /\ ~expected_raises(samples)
    /\ ~chisquared_raises(expected_counts(samples), samples.observed)
    /\ observed' = chisquared(expected_counts(samples), samples.observed)
    /\ count' = 0
    /\ i' = 0
    /\ pc' = "ChiSquaredMulti loop"
    /\ UNCHANGED <<samples, new_samples, stat, out, printed,
                   samplerVars, tableVars>>

\* line 167 or line 169 raises
ChiSquaredMultiObserveRaises ==
    /\ pc = "ChiSquaredMulti loaded"
    /\ IF expected_raises(samples) THEN TRUE
       ELSE chisquared_raises(expected_counts(samples), samples.observed)
    /\ pc' = "ChiSquaredMulti error"
    /\ UNCHANGED <<scriptVars, samplerVars, tableVars>>

\* lines 174-178: one trial.  expected is the list line 169 divided by, and
\* no entry of it is zero.
ChiSquaredMultiTrial ==
    /\ pc = "ChiSquaredMulti loop"
    /\ LoopContinues(i, NumTrials)
    /\ \E perm \in Permutations(1..NumCases(samples.observed)) :
          LET shuffled_observed ==
                  chi_shuffle(samples.observed, Len(samples.row_totals),
                              Len(samples.column_totals), perm)
              chi_squared ==
                  chisquared(expected_counts(samples), shuffled_observed)
          IN  /\ new_samples' = shuffled_observed
              /\ stat' = chi_squared
              /\ count' = IF FracLE(observed, chi_squared)
                          THEN count + 1 ELSE count
    /\ i' = i + 1
    /\ UNCHANGED <<pc, samples, observed, out, printed, samplerVars, tableVars>>

\* lines 186-189: the report
ChiSquaredMultiOutput ==
    /\ pc = "ChiSquaredMulti loop"
    /\ ~LoopContinues(i, NumTrials)
    /\ printed' = <<[observed |-> observed, count |-> count,
                     probability |-> <<count, NumTrials>>]>>
    /\ pc' = "ChiSquaredMulti done"
    /\ UNCHANGED <<samples, new_samples, observed, stat, count, i, out,
                   samplerVars, tableVars>>

ChiSquaredMultiNext ==
    \/ ChiSquaredMultiObserve
    \/ ChiSquaredMultiObserveRaises
    \/ ChiSquaredMultiTrial
    \/ ChiSquaredMultiOutput

SpecChiSquaredMulti == ChiSquaredMultiInit /\ [][ChiSquaredMultiNext]_vars

----------------------------------------------------------------------------
(* TwoWayAnovaSig.py: the significance test of the interaction of two       *)
(* factors                                                                  *)

MaxGridPool == 5   \* most values in all the cells of a grid together

\* lines 266-284: the grids the loader can build: a header names a row and a
\* column and makes the rows up to that row and the cells of that row up to
\* that column, so a row can have fewer cells than another, or none, but the
\* last row has one
RECURSIVE LoadedGridsOf(_, _)
LoadedGridsOf(r, n) ==
    IF r = 0 THEN {<<>>}
    ELSE UNION {{<<row>> \o rest :
                    rest \in LoadedGridsOf(r - 1, n - PoolSize(row))} :
                  row \in UNION {GroupListsOf(BootValues, k, n) :
                                   k \in (IF r = 1 THEN 1 ELSE 0)..MaxDim}}

LoadedGrids == UNION {LoadedGridsOf(r, MaxGridPool) : r \in 0..MaxDim}

\* lines 115-123: pool after the first r rows
RECURSIVE GridPool(_, _)
GridPool(grps, r) ==
    IF r = 0 THEN <<>>
    ELSE GridPool(grps, r - 1) \o Pool(grps[r], Len(grps[r]))

\* lines 116, 121: num_cols when the first loop is over: the number of cells
\* of the last row
LastNumCols(grps) == IF Len(grps) = 0 THEN 0 ELSE Len(grps[Len(grps)])

\* a slip at line 136: start_index is not advanced
NextCellStart_Stuck(start_index, end_index) == start_index

\* line 136: start_index = end_index
NextCellStart(start_index, end_index) == end_index

\* lines 132-136: the cells of a row from cell c on
RECURSIVE RegroupCells(_, _, _, _, _)
RegroupCells(row, pool, c, start_index, num_cols) ==
    IF c = num_cols THEN <<>>
    ELSE LET end_index == start_index + Len(row[c + 1])
         IN  <<Slice(pool, start_index, end_index)>>
                \o RegroupCells(row, pool, c + 1,
                                NextCellStart(start_index, end_index),
                                num_cols)

\* lines 130-136: the rows from row r on
RECURSIVE RegroupRows(_, _, _, _, _)
RegroupRows(grps, pool, r, start_index, num_cols) ==
    IF r = Len(grps) THEN <<>>
    ELSE <<RegroupCells(grps[r + 1], pool, 0, start_index, num_cols)>>
            \o RegroupRows(grps, pool, r + 1,
                           start_index + PoolSize(SubSeq(grps[r + 1], 1,
                                                         num_cols)),
                           num_cols)

\* lines 114-137: shuffle(grps) of TwoWayAnovaSig.py
twoway_shuffle(grps, perm) ==
    RegroupRows(grps, Shuffled(GridPool(grps, Len(grps)), perm), 0, 0,
                LastNumCols(grps))

\* line 134: grps[r][c] raises IndexError
twoway_shuffle_raises(grps) ==
    \E r \in 1..Len(grps) : Len(grps[r]) < LastNumCols(grps)

\* lines 172-181: the cells twowayanova reads: num_cols cells of every row
factor_a(grps, num_cols) ==
    [r \in 1..Len(grps) |-> Pool(grps[r], num_cols)]

factor_b(grps, num_cols) ==
    [c \in 1..num_cols |->
        Pool([r \in 1..Len(grps) |-> grps[r][c]], Len(grps))]

\* lines 172-199: within_ss after the first r rows
RECURSIVE TwoWayWithinSS(_, _, _)
TwoWayWithinSS(grps, num_cols, r) ==
    IF r = 0 THEN <<0, 1>>
    ELSE FracPlus(TwoWayWithinSS(grps, num_cols, r - 1),
                  WithinSS(grps[r], num_cols))

\* lines 159-254: twowayanova(grps), the value returned
twowayanova(grps) ==
    LET num_rows == Len(grps)
        num_cols == Len(grps[1])
        num_grps == num_rows * num_cols
        rows == factor_a(grps, num_cols)
        cols == factor_b(grps, num_cols)
        all_vals == Pool(rows, num_rows)
        total_count == Len(all_vals)
        total_mean == <<SumSeq(all_vals), total_count>>
        within_ss == TwoWayWithinSS(grps, num_cols, num_rows)
        total_ss == Lowest(sumofsq(all_vals, total_mean))
        factor_a_ss ==
            weightedsumofsq([r \in 1..num_rows |-> GroupMean(rows[r])],
                            [r \in 1..num_rows |-> <<Len(rows[r]), 1>>],
                            total_mean, num_rows)
        factor_b_ss ==
            weightedsumofsq([c \in 1..num_cols |-> GroupMean(cols[c])],
                            [c \in 1..num_cols |-> <<Len(cols[c]), 1>>],
                            total_mean, num_cols)
        between_ss == FracMinus(total_ss, within_ss)
        factor_ss == FracMinus(between_ss, FracPlus(factor_a_ss, factor_b_ss))
        between_df == num_grps - 1
        within_df == total_count - num_grps
        interaction_df == between_df - (num_rows - 1) - (num_cols - 1)
        within_var == FracOver(within_ss, <<within_df, 1>>)
        interaction_var == FracOver(factor_ss, <<interaction_df, 1>>)
    IN  FracOver(interaction_var, within_var)

\* what makes twowayanova raise: line 161 (no row: IndexError), line 178 (a
\* row shorter than the first: IndexError), line 184 (an empty cell:
\* ZeroDivisionError), line 201 (no cell, so no value), line 249 (within_df
\* is 0), line 250 (between_df is 0), line 251 (interaction_df is 0),
\* line 254 (within_var is 0)
twowayanova_raises(grps) ==
    IF Len(grps) = 0 THEN TRUE
    ELSE LET num_rows == Len(grps)
             num_cols == Len(grps[1])
         IN  IF \E r \in 1..num_rows : Len(grps[r]) < num_cols THEN TRUE
             ELSE \/ \E r \in 1..num_rows, c \in 1..num_cols :
                        Len(grps[r][c]) = 0
                  \/ num_cols = 0
                  \/ Len(Pool(factor_a(grps, num_cols), num_rows))
                        - num_rows * num_cols = 0
                  \/ num_rows * num_cols - 1 = 0
                  \/ (num_rows * num_cols - 1) - (num_rows - 1)
                        - (num_cols - 1) = 0
                  \/ TwoWayWithinSS(grps, num_cols, num_rows)[1] = 0

TwoWayAnovaSigInit ==
    /\ pc = "TwoWayAnovaSig loaded"
    /\ samples \in LoadedGrids
    /\ new_samples = <<>>
    /\ observed = <<0, 1>>
    /\ stat = <<0, 1>>
    /\ count = 0
    /\ i = 0
    /\ out = <<>>
    /\ printed = <<>>
    /\ SamplerIdle
    /\ TableIdle

\* lines 286-289
TwoWayAnovaSigObserve ==
    /\ pc = "TwoWayAnovaSig loaded"
    /\ ~twowayanova_raises(samples)
    /\ observed' = twowayanova(samples)
    /\ count' = 0
    /\ i' = 0
    /\ pc' = "TwoWayAnovaSig loop"
    /\ UNCHANGED <<samples, new_samples, stat, out, printed,
                   samplerVars, tableVars>>

\* line 286: twowayanova raises
TwoWayAnovaSigObserveRaises ==
    /\ pc = "TwoWayAnovaSig loaded"
    /\ twowayanova_raises(samples)
    /\ pc' = "TwoWayAnovaSig error"
    /\ UNCHANGED <<scriptVars, samplerVars, tableVars>>

\* lines 291-295: one trial.  twowayanova(samples) has returned, so every
\* row has at least the cells of the first row.
TwoWayAnovaSigTrial ==
    /\ pc = "TwoWayAnovaSig loop"
    /\ LoopContinues(i, NumTrials)
    /\ ~twoway_shuffle_raises(samples)
    /\ \E perm \in Permutations(1..Len(GridPool(samples, Len(samples)))) :
          LET shuffled == twoway_shuffle(samples, perm)
          IN  /\ ~twowayanova_raises(shuffled)
              /\ new_samples' = shuffled
              /\ stat' = twowayanova(shuffled)
              /\ count' = IF FracLE(observed, twowayanova(shuffled))
                          THEN count + 1 ELSE count
    /\ i' = i + 1
    /\ UNCHANGED <<pc, samples, observed, out, printed, samplerVars, tableVars>>

\* line 292: shuffle raises; line 293: the shuffle is made and twowayanova
\* raises
TwoWayAnovaSigTrialRaises ==
    /\ pc = "TwoWayAnovaSig loop"
    /\ LoopContinues(i, NumTrials)
    /\ IF twoway_shuffle_raises(samples) THEN new_samples' = new_samples
       ELSE \E perm \in Permutations(1..Len(GridPool(samples, Len(samples)))) :
               /\ twowayanova_raises(twoway_shuffle(samples, perm))
               /\ new_samples' = twoway_shuffle(samples, perm)
    /\ pc' = "TwoWayAnovaSig error"
    /\ UNCHANGED <<samples, observed, stat, count, i, out, printed,
                   samplerVars, tableVars>>

\* lines 304-307: the report
TwoWayAnovaSigOutput ==
    /\ pc = "TwoWayAnovaSig loop"
    /\ ~LoopContinues(i, NumTrials)
    /\ printed' = <<[observed |-> observed, count |-> count,
                     probability |-> <<count, NumTrials>>]>>
    /\ pc' = "TwoWayAnovaSig done"
    /\ UNCHANGED <<samples, new_samples, observed, stat, count, i, out,
                   samplerVars, tableVars>>

TwoWayAnovaSigNext ==
    \/ TwoWayAnovaSigObserve
    \/ TwoWayAnovaSigObserveRaises
    \/ TwoWayAnovaSigTrial
    \/ TwoWayAnovaSigTrialRaises
    \/ TwoWayAnovaSigOutput

SpecTwoWayAnovaSig == TwoWayAnovaSigInit /\ [][TwoWayAnovaSigNext]_vars

----------------------------------------------------------------------------
(* Divisions by zero in the statistics of the significance tests: a run of  *)
(* RegressionSig.py, OneWayAnovaSig.py, ChiSquaredMulti.py or               *)
(* TwoWayAnovaSig.py                                                        *)

SigRunsInit ==
    \/ RegressionSigInit
    \/ OneWayAnovaSigInit
    \/ ChiSquaredMultiInit
    \/ TwoWayAnovaSigInit

SigRunsNext ==
    \/ RegressionSigNext
    \/ OneWayAnovaSigNext
    \/ ChiSquaredMultiNext
    \/ TwoWayAnovaSigNext

SpecSigRuns == SigRunsInit /\ [][SigRunsNext]_vars

\* all the values of a list are the same: its sum of squares about its mean
\* is zero
AllEqual(vals) == \A j \in 1..Len(vals), k \in 1..Len(vals) : vals[j] = vals[k]

\* regressionline(grp_x, grp_y) divides by zero: no x, no y, or a zero sum
\* of squares of x
RegressionZeroDivisor(grp_x, grp_y) ==
    Len(grp_x) = 0 \/ Len(grp_y) = 0 \/ AllEqual(grp_x)

\* onewayanova(grps) divides by zero: an empty group, no group, a single
\* group, as many groups as values, or a zero within-group sum of squares
OneWayZeroDivisor(grps) ==
    \/ \E g \in 1..Len(grps) : Len(grps[g]) = 0
    \/ Len(grps) <= 1
    \/ Len(Flatten(grps)) = Len(grps)
    \/ \A g \in 1..Len(grps) : AllEqual(grps[g])

\* the script divides by a zero total, or chisquared(expected, observed) by
\* a zero expected count: a row or a column of the table sums to zero
ChiSquaredZeroDivisor(table) ==
    /\ Len(table.row_totals) > 0
    /\ \/ \E r \in 1..Len(table.row_totals) : table.row_totals[r] = 0
       \/ \E c \in 1..Len(table.column_totals) : table.column_totals[c] = 0

\* twowayanova(grps), every row having the cells of the first row, divides
\* by zero: no cell, an empty cell, one row or one column (an interaction
\* with zero degrees of freedom), as many cells as values, or a zero
\* within-group sum of squares
TwoWayZeroDivisor(grps) ==
    /\ Len(grps) > 0
    /\ \A r \in 1..Len(grps) : Len(grps[r]) >= Len(grps[1])
    /\ LET cells == {grps[r][c] : r \in 1..Len(grps), c \in 1..Len(grps[1])}
           num_vals == SumSeq([r \in 1..Len(grps) |->
                          Len(Flatten(SubSeq(grps[r], 1, Len(grps[1]))))])
       IN  \/ Len(grps[1]) = 0
           \/ \E cell \in cells : Len(cell) = 0
           \/ Len(grps) = 1
           \/ Len(grps[1]) = 1
           \/ num_vals = Len(grps) * Len(grps[1])
           \/ \A cell \in cells : AllEqual(cell)

\* the statistic of the loaded input, or of the resample of this trial,
\* divides by zero
DividesByZero ==
    \/ /\ pc = "loaded"
       /\ Len(samples) = 2
       /\ RegressionZeroDivisor(samples[1], samples[2])
    \/ /\ pc = "loop"
       /\ LoopContinues(i, NumTrials)
       /\ RegressionZeroDivisor(samples[1], new_samples'[1])
    \/ pc = "OneWayAnovaSig loaded" /\ OneWayZeroDivisor(samples)
    \/ /\ pc = "OneWayAnovaSig loop"
       /\ LoopContinues(i, NumTrials)
       /\ OneWayZeroDivisor(new_samples')
    \/ pc = "ChiSquaredMulti loaded" /\ ChiSquaredZeroDivisor(samples)
    \/ /\ pc = "ChiSquaredMulti loop"
       /\ LoopContinues(i, NumTrials)
       /\ ChiSquaredZeroDivisor(samples)
    \/ pc = "TwoWayAnovaSig loaded" /\ TwoWayZeroDivisor(samples)
    \/ /\ pc = "TwoWayAnovaSig loop"
       /\ LoopContinues(i, NumTrials)
       /\ new_samples' # new_samples
       /\ TwoWayZeroDivisor(new_samples')

\* the run has failed
Failed ==
    pc \in {"error", "OneWayAnovaSig error", "ChiSquaredMulti error",
            "TwoWayAnovaSig error"}

\* C22: a step on which a statistic function divides by zero ends the run as
\* a failure and leaves the observed statistic, the statistic of the last
\* trial, the tally, the result list and the output as they were; every
\* statistic the run holds is a finite number, and a failed run has printed
\* nothing.
C22_ZeroDivisionFails ==
    /\ [][DividesByZero =>
             /\ Failed'
             /\ UNCHANGED <<observed, stat, count, i, out, printed>>]_vars
    /\ [](observed[2] # 0 /\ stat[2] # 0)
    /\ [](Failed => printed = <<>>)

\* C22 witness: the second trial of a one-way analysis of variance shuffled
\* the values into groups without any variance, and the run failed with one
\* trial tallied
C22_Witness ==
    /\ pc = "OneWayAnovaSig error"
    /\ i = 1
    /\ count = 1
    /\ \A g \in 1..Len(new_samples) : AllEqual(new_samples[g])
    /\ \E g \in 1..Len(samples) : ~AllEqual(samples[g])

----------------------------------------------------------------------------
(* ChiSquaredMulti.py: shuffle(observed, num_rows, num_cols) as a function  *)
(* of a loaded table                                                        *)

ChiShuffleInit ==
    /\ pc = "call"
    /\ samples \in LoadedTables
    /\ new_samples = <<>>
    /\ observed = <<0, 1>>
    /\ stat = <<0, 1>>
    /\ count = 0
    /\ i = 0
    /\ out = <<>>
    /\ printed = <<>>
    /\ SamplerIdle
    /\ TableIdle

\* line 175: shuffled_observed = shuffle(observed, len(row_totals),
\* len(column_totals))
ChiShuffleCall ==
    /\ pc = "call"
    /\ \E perm \in Permutations(1..NumCases(samples.observed)) :
          new_samples' = chi_shuffle(samples.observed, Len(samples.row_totals),
                                     Len(samples.column_totals), perm)
    /\ pc' = "returned"
    /\ UNCHANGED <<samples, observed, stat, count, i, out, printed,
                   samplerVars, tableVars>>

ChiShuffleNext == ChiShuffleCall

SpecChiShuffle == ChiShuffleInit /\ [][ChiShuffleNext]_vars

\* C23: for an m x n table of non-negative integer counts, whatever the
\* permutation of the column labels, shuffle returns m * n non-negative
\* counts whose row totals, column totals and grand total are those of the
\* observed table.
C23_ChiShufflePreserves ==
    pc = "returned" =>
        LET m == Len(samples.row_totals)
            n == Len(samples.column_totals)
        IN  /\ Len(new_samples) = m * n
            /\ \A k \in 1..Len(new_samples) : new_samples[k] \in Nat
            /\ \A r \in 0..(m - 1) :
                  RowSum(new_samples, n, r, n)
                      = RowSum(samples.observed, n, r, n)
            /\ \A c \in 0..(n - 1) :
                  ColumnSum(new_samples, n, c, m)
                      = ColumnSum(samples.observed, n, c, m)
            /\ SumSeq(new_samples) = SumSeq(samples.observed)

\* C23 witness: the cases of the diagonal of a 2 x 2 table were moved off it
C23_Witness ==
    /\ pc = "returned"
    /\ samples.observed = <<1, 0, 0, 1>>
    /\ new_samples = <<0, 1, 1, 0>>

----------------------------------------------------------------------------
(* TwoWayAnovaSig.py: shuffle(grps) as a function of a loaded grid          *)

TwoWayShuffleInit ==
    /\ pc = "call"
    /\ samples \in LoadedGrids
    /\ new_samples = <<>>
    /\ observed = <<0, 1>>
    /\ stat = <<0, 1>>
    /\ count = 0
    /\ i = 0
    /\ out = <<>>
    /\ printed = <<>>
    /\ SamplerIdle
    /\ TableIdle

\* lines 114-137: new_grps is returned
TwoWayShuffleReturn ==
    /\ pc = "call"
    /\ ~twoway_shuffle_raises(samples)
    /\ \E perm \in Permutations(1..Len(GridPool(samples, Len(samples)))) :
          new_samples' = twoway_shuffle(samples, perm)
    /\ pc' = "returned"
    /\ UNCHANGED <<samples, observed, stat, count, i, out, printed,
                   samplerVars, tableVars>>

\* line 134: IndexError
TwoWayShuffleRaises ==
    /\ pc = "call"
    /\ twoway_shuffle_raises(samples)
    /\ pc' = "error"
    /\ UNCHANGED <<scriptVars, samplerVars, tableVars>>

TwoWayShuffleNext ==
    \/ TwoWayShuffleReturn
    \/ TwoWayShuffleRaises

SpecTwoWayShuffle == TwoWayShuffleInit /\ [][TwoWayShuffleNext]_vars

\* every row of the grid has as many cells as the first
Rectangular(grid) == \A r \in 1..Len(grid) : Len(grid[r]) = Len(grid[1])

\* all the values of all the cells of a grid, row after row
RECURSIVE GridValues(_)
GridValues(grid) ==
    IF grid = <<>> THEN <<>>
    ELSE Flatten(Head(grid)) \o GridValues(Tail(grid))

\* the grid new has the rows, the cells and the cell lengths of the grid old,
\* and the same values in all
SameShapeAndValues(new, old) ==
    /\ Len(new) = Len(old)
    /\ \A r \in 1..Len(old) :
          /\ Len(new[r]) = Len(old[r])
          /\ \A c \in 1..Len(old[r]) : Len(new[r][c]) = Len(old[r][c])
    /\ SameMultiset(GridValues(new), GridValues(old))

\* C24: for a grid of r rows of c cells each, whatever the permutation
\* drawn, shuffle returns a grid of r rows of c cells in which every cell has
\* the length of the input cell at its place, and the values of all cells
\* together are those of the input grid.
C24_TwoWayShufflePreserves ==
    Rectangular(samples) =>
        /\ pc # "error"
        /\ pc = "returned" => SameShapeAndValues(new_samples, samples)

\* C24 witness: a 2 x 2 grid of five values came back with its values in
\* other cells
C24_Witness ==
    /\ pc = "returned"
    /\ samples = << << <<0, 1>>, <<0>> >>, << <<1>>, <<0>> >> >>
    /\ new_samples = << << <<0, 0>>, <<1>> >>, << <<0>>, <<1>> >> >>

\* C29: for a grid whose rows do not all have the same number of cells,
\* shuffle either returns a grid with the cell lengths and the values of the
\* input grid, or fails; it never returns a grid that lacks cells or values.
C29_RaggedShuffleConserves ==
    (~Rectangular(samples) /\ pc = "returned") =>
        SameShapeAndValues(new_samples, samples)

----------------------------------------------------------------------------
(* CorrelationSig.py: corrcoef(x, y) called while the script's lists grp_x  *)
(* and grp_y (lines 124-125) hold the loaded samples                        *)

\* samples[1] and samples[2] are grp_x and grp_y; new_samples[1] and
\* new_samples[2] are the arguments x and y of the call
CorrcoefCallInit ==
    /\ pc = "call"
    /\ samples \in {<<g_x, g_y>> : g_x \in SeqsUpTo(BootValues, MaxPairs),
                                   g_y \in SeqsUpTo(BootValues, MaxPairs)}
    /\ new_samples \in {<<x, y>> : x \in SeqsUpTo(BootValues, MaxPairs),
                                   y \in SeqsUpTo(BootValues, MaxPairs)}
    /\ observed = <<0, 1>>
    /\ stat = <<0, 1>>
    /\ count = 0
    /\ i = 0
    /\ out = <<>>
    /\ printed = <<>>
    /\ SamplerIdle
    /\ TableIdle

\* lines 87-102: corrcoef(x, y) returns
CorrcoefCallReturn ==
    /\ pc = "call"
    /\ ~corrcoef_raises(new_samples[1], new_samples[2], samples[1], samples[2])
    /\ stat' = corrcoef(new_samples[1], new_samples[2], samples[1], samples[2])
    /\ pc' = "returned"
    /\ UNCHANGED <<samples, new_samples, observed, count, i, out, printed,
                   samplerVars, tableVars>>

\* lines 92-93, 83, 102: corrcoef(x, y) raises
CorrcoefCallRaises ==
    /\ pc = "call"
    /\ corrcoef_raises(new_samples[1], new_samples[2], samples[1], samples[2])
    /\ pc' = "error"
    /\ UNCHANGED <<scriptVars, samplerVars, tableVars>>

CorrcoefCallNext ==
    \/ CorrcoefCallReturn
    \/ CorrcoefCallRaises

SpecCorrcoefCall == CorrcoefCallInit /\ [][CorrcoefCallNext]_vars

\* n times the deviations of the values of a list of n values from their mean
Deviations(vals) ==
    [k \in 1..Len(vals) |-> Len(vals) * vals[k] - SumSeq(vals)]

\* Pearson's r of x and y, as <<p, q>> for the real p / sqrt(q)
PearsonR(x, y) ==
    LET dx == Deviations(x)
        dy == Deviations(y)
    IN  <<SumSeq([k \in 1..Len(x) |-> dx[k] * dy[k]]),
          SumSeq([k \in 1..Len(x) |-> dx[k] * dx[k]])
            * SumSeq([k \in 1..Len(y) |-> dy[k] * dy[k]])>>

\* C25: for x and y of one length >= 2, neither of them constant,
\* corrcoef(x, y) returns Pearson's r of x and y, whatever the lists grp_x
\* and grp_y of the script hold.
C25_CorrcoefPure ==
    LET x == new_samples[1]
        y == new_samples[2]
    IN  (Len(x) = Len(y) /\ Len(x) >= 2 /\ ~AllEqual(x) /\ ~AllEqual(y)) =>
            /\ pc # "error"
            /\ pc = "returned" =>
                  /\ RootLE(stat, PearsonR(x, y))
                  /\ RootLE(PearsonR(x, y), stat)

----------------------------------------------------------------------------
(* The table of normal-curve areas in the three scripts that define it      *)

\* a table of 300 entries, for 0.00 to 2.99 standard deviations
OneWayAnovaConf_area_to_sd_map_Truncated == SubSeq(area_to_sd_map, 1, 300)

\* OneWayAnovaConf.py line 95, in ten-thousandths
OneWayAnovaConf_area_to_sd_map == <<
    0, 40, 80, 120, 160, 199, 239, 279, 319, 359, 398, 438,
    478, 517, 557, 596, 636, 675, 714, 753, 793, 832, 871, 910,
    948, 987, 1026, 1064, 1103, 1141, 1179, 1217, 1255, 1293, 1331, 1368,
    1406, 1443, 1480, 1517, 1554, 1591, 1628, 1664, 1700, 1736, 1772, 1808,
    1844, 1879, 1915, 1950, 1985, 2019, 2054, 2088, 2123, 2157, 2190, 2224,
    2257, 2291, 2324, 2357, 2389, 2422, 2454, 2486, 2517, 2549, 2580, 2611,
    2642, 2673, 2704, 2734, 2764, 2794, 2823, 2852, 2881, 2910, 2939, 2967,
    2995, 3023, 3051, 3078, 3106, 3133, 3159, 3186, 3212, 3238, 3264, 3289,
    3315, 3340, 3365, 3389, 3413, 3438, 3461, 3485, 3508, 3531, 3554, 3577,
    3599, 3621, 3643, 3665, 3686, 3708, 3729, 3749, 3770, 3790, 3810, 3830,
    3849, 3869, 3888, 3907, 3925, 3944, 3962, 3980, 3997, 4015, 4032, 4049,
    4066, 4082, 4099, 4115, 4131, 4147, 4162, 4177, 4192, 4207, 4222, 4236,
    4251, 4265, 4279, 4292, 4306, 4319, 4332, 4345, 4357, 4370, 4382, 4394,
    4406, 4418, 4429, 4441, 4452, 4463, 4474, 4484, 4495, 4505, 4515, 4525,
    4535, 4545, 4554, 4564, 4573, 4582, 4591, 4599, 4608, 4616, 4625, 4633,
    4641, 4649, 4656, 4664, 4671, 4678, 4686, 4693, 4699, 4706, 4713, 4719,
    4726, 4732, 4738, 4744, 4750, 4756, 4761, 4767, 4772, 4778, 4783, 4788,
    4793, 4798, 4803, 4808, 4812, 4817, 4821, 4826, 4830, 4834, 4838, 4842,
    4846, 4850, 4854, 4857, 4861, 4864, 4868, 4871, 4875, 4878, 4881, 4884,
    4887, 4890, 4893, 4896, 4898, 4901, 4904, 4906, 4909, 4911, 4913, 4916,
    4918, 4920, 4922, 4925, 4927, 4929, 4931, 4932, 4934, 4936, 4938, 4940,
    4941, 4943, 4945, 4946, 4948, 4949, 4951, 4952, 4953, 4955, 4956, 4957,
    4959, 4960, 4961, 4962, 4963, 4964, 4965, 4966, 4967, 4968, 4969, 4970,
    4971, 4972, 4973, 4974, 4974, 4975, 4976, 4977, 4977, 4978, 4979, 4979,
    4980, 4981, 4981, 4982, 4982, 4983, 4984, 4984, 4985, 4985, 4986, 4986,
    4987, 4987, 4987, 4988, 4988, 4989, 4989, 4989, 4990, 4990 >>

\* TwoWayAnovaConf.py line 128, in ten-thousandths
TwoWayAnovaConf_area_to_sd_map == <<
    0, 40, 80, 120, 160, 199, 239, 279, 319, 359, 398, 438,
    478, 517, 557, 596, 636, 675, 714, 753, 793, 832, 871, 910,
    948, 987, 1026, 1064, 1103, 1141, 1179, 1217, 1255, 1293, 1331, 1368,
    1406, 1443, 1480, 1517, 1554, 1591, 1628, 1664, 1700, 1736, 1772, 1808,
    1844, 1879, 1915, 1950, 1985, 2019, 2054, 2088, 2123, 2157, 2190, 2224,
    2257, 2291, 2324, 2357, 2389, 2422, 2454, 2486, 2517, 2549, 2580, 2611,
    2642, 2673, 2704, 2734, 2764, 2794, 2823, 2852, 2881, 2910, 2939, 2967,
    2995, 3023, 3051, 3078, 3106, 3133, 3159, 3186, 3212, 3238, 3264, 3289,
    3315, 3340, 3365, 3389, 3413, 3438, 3461, 3485, 3508, 3531, 3554, 3577,
    3599, 3621, 3643, 3665, 3686, 3708, 3729, 3749, 3770, 3790, 3810, 3830,
    3849, 3869, 3888, 3907, 3925, 3944, 3962, 3980, 3997, 4015, 4032, 4049,
    4066, 4082, 4099, 4115, 4131, 4147, 4162, 4177, 4192, 4207, 4222, 4236,
    4251, 4265, 4279, 4292, 4306, 4319, 4332, 4345, 4357, 4370, 4382, 4394,
    4406, 4418, 4429, 4441, 4452, 4463, 4474, 4484, 4495, 4505, 4515, 4525,
    4535, 4545, 4554, 4564, 4573, 4582, 4591, 4599, 4608, 4616, 4625, 4633,
    4641, 4649, 4656, 4664, 4671, 4678, 4686, 4693, 4699, 4706, 4713, 4719,
    4726, 4732, 4738, 4744, 4750, 4756, 4761, 4767, 4772, 4778, 4783, 4788,
    4793, 4798, 4803, 4808, 4812, 4817, 4821, 4826, 4830, 4834, 4838, 4842,
    4846, 4850, 4854, 4857, 4861, 4864, 4868, 4871, 4875, 4878, 4881, 4884,
    4887, 4890, 4893, 4896, 4898, 4901, 4904, 4906, 4909, 4911, 4913, 4916,
    4918, 4920, 4922, 4925, 4927, 4929, 4931, 4932, 4934, 4936, 4938, 4940,
    4941, 4943, 4945, 4946, 4948, 4949, 4951, 4952, 4953, 4955, 4956, 4957,
    4959, 4960, 4961, 4962, 4963, 4964, 4965, 4966, 4967, 4968, 4969, 4970,
    4971, 4972, 4973, 4974, 4974, 4975, 4976, 4977, 4977, 4978, 4979, 4979,
    4980, 4981, 4981, 4982, 4982, 4983, 4984, 4984, 4985, 4985, 4986, 4986,
    4987, 4987, 4987, 4988, 4988, 4989, 4989, 4989, 4990, 4990 >>

\* the list of the running script does not decrease, is the list the script
\* defined, and the three scripts define the same list
TableKept ==
    /\ \A k \in 1..(Len(area_table) - 1) : area_table[k] <= area_table[k + 1]
    /\ area_table = area_to_sd_map
    /\ area_to_sd_map = OneWayAnovaConf_area_to_sd_map
    /\ area_to_sd_map = TwoWayAnovaConf_area_to_sd_map

----------------------------------------------------------------------------
(* ChiSquaredOne.py: drawing simulated counts for the expected categories   *)

MaxCategories == 3 \* most categories in the list expected
MaxWeight == 3     \* largest expected count of a category
MaxDraws == 3      \* largest num, the number of values to draw

\* lines 119, 122: the list expected read from the file, one positive
\* whole count for each of one or more categories
ExpectedLists ==
    UNION {[1..n -> 1..MaxWeight] : n \in 1..MaxCategories}

\* lines 76-84: bins[b] is the sum of expected[0..b]
RECURSIVE WeighBins(_, _)
WeighBins(expected, b) ==
    IF b = 0 THEN <<>>
    ELSE LET bins == WeighBins(expected, b - 1)
             max == IF b = 1 THEN 0 ELSE bins[b - 1]
         IN  Append(bins, max + expected[b])

\* the loop stops at the first bin that reaches the draw or above it
RECURSIVE WhichBin_Strict(_, _, _)
WhichBin_Strict(bins, draw, b) ==
    IF b < Len(bins) /\ draw >= bins[b + 1]
    THEN WhichBin_Strict(bins, draw, b + 1)
    ELSE b

\* lines 89-91: b counts from 0, as in the code; it is len(bins) when no bin
\* holds the draw
RECURSIVE WhichBin(_, _, _)
WhichBin(bins, draw, b) ==
    IF b < Len(bins) /\ draw > bins[b + 1]
    THEN WhichBin(bins, draw, b + 1)
    ELSE b

\* line 134: the call drawfromcategories(num_observations, expected); samples
\* is the argument expected and count the argument num
DrawFromCategoriesInit ==
    /\ pc = "drawfromcategories called"
    /\ samples \in ExpectedLists
    /\ count \in 0..MaxDraws
    /\ new_samples = <<>>
    /\ observed = <<>>
    /\ stat = <<0, 0>>
    /\ i = 0
    /\ out = <<>>
    /\ printed = <<>>
    /\ SamplerIdle
    /\ TableIdle

\* lines 76-85: new_samples is the list bins, whose last entry is max
DrawFromCategoriesWeigh ==
    /\ pc = "drawfromcategories called"
    /\ new_samples' = WeighBins(samples, Len(samples))
    /\ observed' = [b \in 1..Len(samples) |-> 0]
    /\ pc' = "drawfromcategories drawing"
    /\ UNCHANGED <<samples, stat, count, i, out, printed, samplerVars,
                   tableVars>>

\* lines 86-92: one pass of the loop over d; stat is the draw and its bin b,
\* and observed[b] of a b past the last bin raises IndexError
DrawFromCategoriesDraw ==
    /\ pc = "drawfromcategories drawing"
    /\ i < count
    /\ \E draw \in 1..new_samples[Len(new_samples)] :
         LET b == WhichBin(new_samples, draw, 0)
         IN  /\ stat' = <<draw, b>>
             /\ IF b < Len(observed)
                THEN /\ observed' = [observed EXCEPT ![b + 1] = @ + 1]
                     /\ i' = i + 1
                     /\ pc' = pc
                ELSE /\ pc' = "drawfromcategories error"
                     /\ UNCHANGED <<observed, i>>
    /\ UNCHANGED <<samples, new_samples, count, out, printed, samplerVars,
                   tableVars>>

\* line 93
DrawFromCategoriesReturn ==
    /\ pc = "drawfromcategories drawing"
    /\ i = count
    /\ pc' = "drawfromcategories returned"
    /\ UNCHANGED <<samplerVars, scriptVars, tableVars>>

DrawFromCategoriesNext ==
    \/ DrawFromCategoriesWeigh
    \/ DrawFromCategoriesDraw
    \/ DrawFromCategoriesReturn

SpecDrawFromCategories ==
    DrawFromCategoriesInit /\ [][DrawFromCategoriesNext]_vars

\* the sum of the first b expected counts
Cumulative(b) == SumSeq(SubSeq(samples, 1, b))

----------------------------------------------------------------------------
(* FishersExactTestSig.py: the tables that shuffle can return               *)

MaxTargetDim == 3  \* most rows / columns of a table to be returned
MaxTargetSum == 3  \* most cases counted in a table to be returned

\* the tables of non-negative counts, row after row, of m rows and n columns
TargetTables(m, n) == CountLists(m * n, MaxTargetSum)

\* lines 107, 112-118: shuffle is called with the row and column totals of
\* a table of non-negative counts, kept in samples
TargetSamplerInit ==
    /\ pc = "call"
    /\ \E m \in 0..MaxTargetDim, n \in 0..MaxTargetDim :
         /\ samples \in TargetTables(m, n)
         /\ orig_row_totals = [r \in 1..m |-> RowSum(samples, n, r - 1, n)]
         /\ orig_column_totals =
              [c \in 1..n |-> ColumnSum(samples, n, c - 1, m)]
    /\ current_row = 0
    /\ current_column = 0
    /\ available_row_vals = <<>>
    /\ available_column_vals = <<>>
    /\ new_counts = <<>>
    /\ new_samples = <<>>
    /\ observed = <<0, 1>>
    /\ stat = <<0, 1>>
    /\ count = 0
    /\ i = 0
    /\ out = <<>>
    /\ printed = <<>>
    /\ TableIdle

\* lines 120-142; with the totals of a table of counts no available count of
\* a free cell is negative, so that line 130 has no empty range
TargetSamplerNext ==
    \/ ShuffleEnter
    \/ ShuffleRow
    \/ ShuffleReturn
    \/ ShuffleRowDone
    \/ ShuffleFreeCell
    \/ ShuffleLastColumnCell
    \/ ShuffleLastRowCell

SpecTargetSampler == TargetSamplerInit /\ [][TargetSamplerNext]_vars

\* the cells stored so far are those of the table kept in samples
OnTarget ==
    /\ Len(new_counts) <= Len(samples)
    /\ new_counts = SubSeq(samples, 1, Len(new_counts))

\* a step of shuffle after which the cells stored are still those of the table
TowardsTarget ==
    /\ TargetSamplerNext
    /\ Len(new_counts') <= Len(samples)
    /\ new_counts' = SubSeq(samples, 1, Len(new_counts'))

\* C27: for all row and column totals with equal sums, every table of
\* non-negative integers with these row and column sums is returned by shuffle
\* for some outcome of the draws: as long as the cells stored are those of the
\* table, shuffle has a step that keeps them so (the range of a free cell's
\* draw holds the cell of the table, and a forced value is the cell of the
\* table), until it returns the table.
C27_EveryTableReachable ==
    OnTarget =>
        /\ pc # "error"
        /\ pc = "returned" => new_counts = samples
        /\ pc # "returned" => ENABLED TowardsTarget

\* C27 witness: shuffle returned a table of three rows and three columns
\* whose free cells hold the largest values their draws allow
C27_Witness ==
    /\ pc = "returned"
    /\ samples = <<1, 0, 0, 0, 1, 0, 0, 0, 1>>
    /\ new_counts = samples

----------------------------------------------------------------------------
(* RegressionConf.py, OneWayAnovaConf.py: the bootstrap loop, trial by trial *)

MaxBootPool == 4   \* most values in the groups of a bootstrapped input

\* OneWayAnovaConf.py lines 227-238: the groups read from the file
BootGroupLists ==
    UNION {GroupListsOf(Values, k, MaxBootPool) : k \in 0..2}

\* a value that equals the observed one is counted too
BelowObserved_OrEqual(boot, obs) == ~FracLT(obs, boot)

\* RegressionConf.py line 200, OneWayAnovaConf.py line 255
BelowObserved(boot, obs) == FracLT(boot, obs)

\* RegressionConf.py lines 200-202, OneWayAnovaConf.py lines 255-257: the end
\* of a trial whose statistic is boot
CountTrial(boot) ==
    /\ stat' = boot
    /\ num_below_observed' = IF BelowObserved(boot, observed)
                             THEN num_below_observed + 1
                             ELSE num_below_observed
    /\ out' = Append(out, boot)
    /\ i' = i + 1

\* RegressionConf.py lines 172-185, 189-191
RegressionConfRunInit ==
    /\ pc = "RegressionConf loaded"
    /\ samples \in RegressionInputs
    /\ new_samples = <<>>
    /\ observed = <<0, 1>>
    /\ stat = <<0, 1>>
    /\ count = 0
    /\ i = 0
    /\ out = <<>>
    /\ printed = <<>>
    /\ SamplerIdle
    /\ TableIdle

\* RegressionConf.py lines 184-187
RegressionConfRunObserve ==
    /\ pc = "RegressionConf loaded"
    /\ Len(samples) >= 2
    /\ ~regressionline_raises(samples[1], samples[2])
    /\ observed' = regressionline(samples[1], samples[2])[2]
    /\ pc' = "RegressionConf loop"
    /\ UNCHANGED <<samples, new_samples, stat, count, i, out, printed,
                   samplerVars, tableVars>>

\* RegressionConf.py lines 184-185: IndexError for a file of fewer than two
\* groups; line 187: regressionline raises
RegressionConfRunObserveRaises ==
    /\ pc = "RegressionConf loaded"
    /\ IF Len(samples) < 2 THEN TRUE
       ELSE regressionline_raises(samples[1], samples[2])
    /\ pc' = "RegressionConf error"
    /\ UNCHANGED <<scriptVars, samplerVars, tableVars>>

\* RegressionConf.py lines 193-202: one trial
RegressionConfRunTrial ==
    /\ pc = "RegressionConf loop"
    /\ i < NumTrials
    /\ \E boot \in BootPairs(samples[1], samples[2]) :
         /\ ~regressionline_raises(boot[1], boot[2])
         /\ new_samples' = boot
         /\ CountTrial(regressionline(boot[1], boot[2])[2])
    /\ UNCHANGED <<area_table,
                   pc, samples, observed, count, printed, samplerVars,
                   area_arg, sd_ret, sd_arg, area_ret, z_0,
                   bias_corr_lower_bound, bias_corr_upper_bound,
                   lower_bound, upper_bound>>

\* RegressionConf.py lines 197, 199: bootstrap or regressionline raises
RegressionConfRunTrialRaises ==
    /\ pc = "RegressionConf loop"
    /\ i < NumTrials
    /\ TrialRaises(samples[1], samples[2])
    /\ pc' = "RegressionConf error"
    /\ UNCHANGED <<scriptVars, samplerVars, tableVars>>

\* RegressionConf.py line 204
RegressionConfRunSort ==
    /\ pc = "RegressionConf loop"
    /\ i = NumTrials
    /\ out' = SortedList(out)
    /\ pc' = "RegressionConf sorted"
    /\ UNCHANGED <<samples, new_samples, observed, stat, count, i, printed,
                   samplerVars, tableVars>>

\* OneWayAnovaConf.py lines 227-238, 242-244
OneWayAnovaConfRunInit ==
    /\ pc = "OneWayAnovaConf loaded"
    /\ samples \in BootGroupLists
    /\ new_samples = <<>>
    /\ observed = <<0, 1>>
    /\ stat = <<0, 1>>
    /\ count = 0
    /\ i = 0
    /\ out = <<>>
    /\ printed = <<>>
    /\ SamplerIdle
    /\ TableIdle

\* OneWayAnovaConf.py line 240; onewayanova (lines 149-218) is the function
\* of OneWayAnovaSig.py
OneWayAnovaConfRunObserve ==
    /\ pc = "OneWayAnovaConf loaded"
    /\ ~onewayanova_raises(samples)
    /\ observed' = onewayanova(samples)
    /\ pc' = "OneWayAnovaConf loop"
    /\ UNCHANGED <<samples, new_samples, stat, count, i, out, printed,
                   samplerVars, tableVars>>

\* OneWayAnovaConf.py line 240: onewayanova raises ZeroDivisionError
OneWayAnovaConfRunObserveRaises ==
    /\ pc = "OneWayAnovaConf loaded"
    /\ onewayanova_raises(samples)
    /\ pc' = "OneWayAnovaConf error"
    /\ UNCHANGED <<scriptVars, samplerVars, tableVars>>

\* OneWayAnovaConf.py lines 246-257: one trial
OneWayAnovaConfRunTrial ==
    /\ pc = "OneWayAnovaConf loop"
    /\ i < NumTrials
    /\ \E boot \in ResampledLists(samples, Len(samples)) :
         /\ ~onewayanova_raises(boot)
         /\ new_samples' = boot
         /\ CountTrial(onewayanova(boot))
    /\ UNCHANGED <<area_table,
                   pc, samples, observed, count, printed, samplerVars,
                   area_arg, sd_ret, sd_arg, area_ret, z_0,
                   bias_corr_lower_bound, bias_corr_upper_bound,
                   lower_bound, upper_bound>>

\* OneWayAnovaConf.py line 254: onewayanova of the resampled groups raises
OneWayAnovaConfRunTrialRaises ==
    /\ pc = "OneWayAnovaConf loop"
    /\ i < NumTrials
    /\ \E boot \in ResampledLists(samples, Len(samples)) :
         /\ onewayanova_raises(boot)
         /\ new_samples' = boot
    /\ pc' = "OneWayAnovaConf error"
    /\ UNCHANGED <<samples, observed, stat, count, i, out, printed,
                   samplerVars, tableVars>>

\* OneWayAnovaConf.py line 259
OneWayAnovaConfRunSort ==
    /\ pc = "OneWayAnovaConf loop"
    /\ i = NumTrials
    /\ out' = SortedList(out)
    /\ pc' = "OneWayAnovaConf sorted"
    /\ UNCHANGED <<samples, new_samples, observed, stat, count, i, printed,
                   samplerVars, tableVars>>

BiasRunsInit == RegressionConfRunInit \/ OneWayAnovaConfRunInit

BiasRunsNext ==
    \/ RegressionConfRunObserve
    \/ RegressionConfRunObserveRaises
    \/ RegressionConfRunTrial
    \/ RegressionConfRunTrialRaises
    \/ RegressionConfRunSort
    \/ OneWayAnovaConfRunObserve
    \/ OneWayAnovaConfRunObserveRaises
    \/ OneWayAnovaConfRunTrial
    \/ OneWayAnovaConfRunTrialRaises
    \/ OneWayAnovaConfRunSort

SpecBiasRuns == BiasRunsInit /\ [][BiasRunsNext]_vars

\* how many values of the list s are strictly less than obs
NumBelow(s, obs) == Cardinality({k \in 1..Len(s) : FracLT(s[k], obs)})

\* C28: in every bootstrap run with bias correction, after each trial len(out)
\* is the number of trials done and num_below_observed is the number of values
\* of out strictly less than the observed statistic; after the final sort,
\* the first num_below_observed elements of out are below the observed
\* statistic and no other element is.
C28_BelowCounted ==
    /\ pc \in {"RegressionConf loop", "OneWayAnovaConf loop",
               "RegressionConf sorted", "OneWayAnovaConf sorted"} =>
         /\ Len(out) = i
         /\ num_below_observed = NumBelow(out, observed)
    /\ pc \in {"RegressionConf sorted", "OneWayAnovaConf sorted"} =>
         \A k \in 1..Len(out) :
            FracLT(out[k], observed) <=> k <= num_below_observed

\* C28 witness: a run of OneWayAnovaConf.py has sorted the F statistics of its
\* trials, of which one is below the observed one, one equals it and one is
\* above it
C28_Witness ==
    /\ pc = "OneWayAnovaConf sorted"
    /\ num_below_observed = 1
    /\ FracLT(out[1], observed)
    /\ out[2] = observed
    /\ FracLT(observed, out[Len(out)])

====
